---- MODULE Spec2Model ----
(***************************************************************************)
(* Model of the akin similarity engine of iris: the dual store             *)
(* (crates/akin/src/store.rs) over the relational database                 *)
(* (crates/akin/src/db) and the vector index                               *)
(* (crates/akin/src/vector_index.rs).                                      *)
(***************************************************************************)
EXTENDS Integers, Sequences, FiniteSets, TLC

VARIABLES
    units,          \* rows of table code_units, in rowid (scan) order
    pairs,          \* rows of table similar_pairs, in rowid order
    indexFile,      \* the persisted vector index file <db_path>.usearch
    opened,         \* TRUE while a Store value exists
    vector_index,   \* Store.vector_index : Option<VectorIndex>
    name_to_id,     \* Store.name_to_id
    id_to_name,     \* Store.id_to_name
    next_id,        \* Store.next_id
    last,           \* the last operation, its argument and its result
    scen,           \* progress of the delete-the-index-file scenario
    in_tx,          \* the database connection has a transaction open
    foreign_keys,   \* the SQLite library enforces foreign keys
    queue,          \* the running cmd_index: the units it has yet to process
    embed_calls,    \* per body, the requests the embedder has received
    request_id,     \* LspClient.request_id
    pending,        \* LspClient.pending: the ids that have a sender
    driver,         \* where the driver task is in get_functions
    stdin,          \* the bytes written to the server and not yet read by it
    stdout,         \* the messages the server wrote, not yet read
    server,         \* the language server: requests received and answered
    chan,           \* the oneshot channel of the request in progress
    returned,       \* per request id, how LspClient::request returned
    reader_running, \* the reader thread has not returned
    functions,      \* the last get_functions: its result and its units
    batch,          \* the running search_batch_parallel and its workers
    arch,           \* ArchitectureAnalyzer.functions
    tree            \* the last get_call_tree: its arguments and its result

vars == <<units, pairs, indexFile, opened, vector_index,
          name_to_id, id_to_name, next_id, last, scen, in_tx,
          foreign_keys, queue, embed_calls, request_id, pending, driver,
          stdin, stdout, server, chan, returned, reader_running, functions,
          batch, arch, tree>>

lspVars == <<request_id, pending, driver, stdin, stdout, server, chan,
             returned, reader_running, functions>>

indexVars == <<queue, embed_calls>>
archVars == <<arch, tree>>

storeVars == <<opened, vector_index, name_to_id, id_to_name, next_id>>

(***************************************************************************)
(* Bounds of the model.                                                    *)
(***************************************************************************)
MaxRowId == 3       \* largest rowid of similar_pairs in PairSpec
MaxBatch == 2       \* length of a list given to batch_upsert_similar_pairs

(***************************************************************************)
(* Program constants.                                                      *)
(***************************************************************************)
Dimensions == 1024
ReserveStep == 1000
ScanK == 100
DefaultThreshold == 850   \* 0.85, in thousandths

(***************************************************************************)
(* Qualified names are strings; they are modelled as sequences of          *)
(* character codes so that the byte-wise order of Rust's str is computed.  *)
(***************************************************************************)
Names == { <<1>>, <<2>> }

RECURSIVE StrLess(_, _)
StrLess(a, b) ==
    IF b = << >> THEN FALSE
    ELSE IF a = << >> THEN TRUE
    ELSE IF Head(a) # Head(b) THEN Head(a) < Head(b)
    ELSE StrLess(Tail(a), Tail(b))

\* the qualified name embeds the file path: <lang>:<file_path>::<type>::<func>
FileOf(name) == Head(name)
Files == { FileOf(n) : n \in Names }

(***************************************************************************)
(* Embedding blobs: a byte length and the content, the content abstracted  *)
(* to a direction in the plane so that cosine similarity can be computed.  *)
(***************************************************************************)
NullEmb == [null |-> TRUE, len |-> 0, vec |-> <<0, 0>>]
Blob(l, v) == [null |-> FALSE, len |-> l, vec |-> v]
VecA == <<3, 4>>
VecB == <<4, 3>>
VecC == <<5, 0>>

\* blobs of the index dimension, a blob whose length is no multiple of 4 and
\* a blob of another dimension
BlobA == Blob(4 * Dimensions, VecA)
BlobB == Blob(4 * Dimensions, VecB)
BlobC == Blob(4 * Dimensions, VecC)
BadLenBlob == Blob(4 * Dimensions - 2, VecA)
WrongDimBlob == Blob(8, VecA)

None == [some |-> FALSE, dim |-> 0, vec |-> <<0, 0>>]
Some(d, v) == [some |-> TRUE, dim |-> d, vec |-> v]

\* the vector of a unit's embedding, as handed to the index
VecOf(embedding, name) ==
    [dim |-> embedding.dim, vec |-> embedding.vec, of |-> name]

bytes_to_embedding(bytes) ==
    IF bytes.len % 4 # 0 THEN None
    ELSE Some(bytes.len \div 4, bytes.vec)

\* the f32 vector of a record's embedding column, if it has one
Decoded(emb) == IF emb.null THEN None ELSE bytes_to_embedding(emb)

Dot(a, b) == a[1] * b[1] + a[2] * b[2]
Norm(a) == CHOOSE n \in 0..10 : n * n = Dot(a, a)

\* SearchResult::similarity = 1 - cosine distance, in thousandths
Similarity(a, b) == (1000 * Dot(a, b)) \div (Norm(a) * Norm(b))

(***************************************************************************)
(* Finite maps (HashMap).                                                  *)
(***************************************************************************)
EmptyMap == [x \in {} |-> 0]
Insert(m, k, v) == [x \in (DOMAIN m) \cup {k} |-> IF x = k THEN v ELSE m[x]]
Remove(m, k) == [x \in (DOMAIN m) \ {k} |-> m[x]]
Range(m) == { m[x] : x \in DOMAIN m }

SelectIdx(s, keep(_)) ==
    LET F[i \in 0..Len(s)] ==
            IF i = 0 THEN << >>
            ELSE IF keep(s[i]) THEN Append(F[i - 1], s[i]) ELSE F[i - 1]
    IN F[Len(s)]

(***************************************************************************)
(* Relational store: table code_units (crates/akin/src/db/code_unit.rs).   *)
(* An Option<i64> is the set of its values: {} is None, {g} is Some(g).    *)
(***************************************************************************)
\* a record as the indexer builds it for unit n with embedding e; the other
\* fields have one value here and are varied with EXCEPT where they matter
CodeUnitRecord(n, e) ==
    [qualified_name |-> n, project_id |-> FileOf(n),
     file_path |-> FileOf(n), kind |-> "function",
     range_start |-> 1, range_end |-> 2,
     content_hash |-> "c1", structure_hash |-> "s1",
     embedding |-> e, group_id |-> {}]

HasUnit(us, n) == \E i \in DOMAIN us : us[i].qualified_name = n
UnitOf(us, n) == us[CHOOSE i \in DOMAIN us : us[i].qualified_name = n]

\* Option::or
OrElse(a, b) == IF a # {} THEN a ELSE b

\* SELECT group_id FROM code_units WHERE structure_hash = ? AND
\* qualified_name != ?, query_row(..).ok().flatten(): the group_id of the
\* first row the scan finds, None when that row's group_id is NULL
inherited_group_id(us, record) ==
    LET match == { i \in DOMAIN us :
                     /\ us[i].structure_hash = record.structure_hash
                     /\ us[i].qualified_name # record.qualified_name }
    IN IF match = {} THEN {}
       ELSE us[CHOOSE i \in match : \A j \in match : i <= j].group_id

\* as db_upsert_code_unit, with embedding = excluded.embedding
db_upsert_code_unit_Overwrite(us, record) ==
    LET excluded == [record EXCEPT
                       !.group_id = OrElse(inherited_group_id(us, record),
                                           record.group_id)]
    IN IF HasUnit(us, record.qualified_name)
       THEN [i \in DOMAIN us |->
               IF us[i].qualified_name = record.qualified_name
               THEN [excluded EXCEPT
                       !.project_id = us[i].project_id,
                       !.group_id = OrElse(us[i].group_id, excluded.group_id)]
               ELSE us[i]]
       ELSE Append(us, excluded)

\* Database::upsert_code_unit: INSERT ... ON CONFLICT(qualified_name) DO
\* UPDATE; the values inserted are the record with group_id =
\* inherited_group_id.or(record.group_id).  On a conflict the row keeps its
\* rowid and its project_id, embedding = COALESCE(excluded.embedding, old),
\* group_id = COALESCE(old, excluded.group_id), and the other columns take
\* the excluded values.
db_upsert_code_unit(us, record) ==
    LET excluded == [record EXCEPT
                       !.group_id = OrElse(inherited_group_id(us, record),
                                           record.group_id)]
    IN IF HasUnit(us, record.qualified_name)
       THEN [i \in DOMAIN us |->
               IF us[i].qualified_name = record.qualified_name
               THEN [excluded EXCEPT
                       !.project_id = us[i].project_id,
                       !.embedding = IF excluded.embedding.null
                                     THEN us[i].embedding
                                     ELSE excluded.embedding,
                       !.group_id = OrElse(us[i].group_id, excluded.group_id)]
               ELSE us[i]]
       ELSE Append(us, excluded)

\* SELECT * FROM code_units: a scan of the table in rowid order
get_code_units_by_projects(us) == us

get_code_unit(us, n) == IF HasUnit(us, n) THEN {UnitOf(us, n)} ELSE {}

\* a database connection: the rows of the two tables as the connection sees
\* them, its transaction state, and whether the SQLite library the program
\* is built with enforces foreign keys (the code sets no PRAGMA
\* foreign_keys, so this is the library's compile-time default)
Db(us, ps, tx, fk) == [units |-> us, pairs |-> ps, in_tx |-> tx,
                       foreign_keys |-> fk]

\* a row of similar_pairs references a code unit of file f
ReferencedByPair(db, f) ==
    \E i \in DOMAIN db.units, j \in DOMAIN db.pairs :
       /\ db.units[i].file_path = f
       /\ db.units[i].qualified_name \in {db.pairs[j].unit_a, db.pairs[j].unit_b}

\* Database::delete_code_units_by_file: DELETE FROM code_units WHERE
\* file_path = ?.  similar_pairs declares FOREIGN KEY (unit_a)/(unit_b)
\* REFERENCES code_units(qualified_name) with no ON DELETE action: with
\* foreign keys enforced the DELETE of a referenced unit fails, without
\* enforcement the pairs stay.  The result and the rows of both tables.
delete_code_units_by_file(db, f) ==
    LET keep(u) == u.file_path # f
    IN IF db.foreign_keys /\ ReferencedByPair(db, f)
       THEN [ok |-> FALSE, us |-> db.units, ps |-> db.pairs]
       ELSE [ok |-> TRUE, us |-> SelectIdx(db.units, keep), ps |-> db.pairs]

(***************************************************************************)
(* Vector index (crates/akin/src/vector_index.rs): entries maps an id to   *)
(* the vector stored under it.  Next to the vector, an entry records the   *)
(* unit whose embedding it is; the program never reads that field.         *)
(***************************************************************************)
NoIndex == [some |-> FALSE, entries |-> EmptyMap]
with_defaults == [some |-> TRUE, entries |-> EmptyMap]

size(index) == Cardinality(DOMAIN index.entries)
contains(index, id) == id \in DOMAIN index.entries
remove(index, id) == [index EXCEPT !.entries = Remove(index.entries, id)]

\* reserve changes the capacity only.  Every add of the store follows a
\* reserve that makes room for it (store.rs:152-154, 343), so the capacity
\* never decides an outcome and is not part of the index's state.
reserve(index, c) == index

\* as add, without the check of the length: the vector goes to the library
add_Unchecked(index, id, v) ==
    IF contains(index, id)
    THEN [ok |-> FALSE, err |-> "IndexError", index |-> index]
    ELSE [ok |-> TRUE, err |-> "none",
          index |-> [index EXCEPT !.entries =
                        Insert(index.entries, id, [vec |-> v.vec, of |-> v.of])]]

\* Err(DimensionMismatch) when the length differs from the configured
\* dimension; with multi = false the library refuses a key it already holds
add(index, id, v) ==
    IF v.dim # Dimensions
    THEN [ok |-> FALSE, err |-> "DimensionMismatch", index |-> index]
    ELSE IF contains(index, id)
    THEN [ok |-> FALSE, err |-> "IndexError", index |-> index]
    ELSE [ok |-> TRUE, err |-> "none",
          index |-> [index EXCEPT !.entries =
                        Insert(index.entries, id, [vec |-> v.vec, of |-> v.of])]]

\* the file written by save and what load makes of it
NoFile == [state |-> "missing", entries |-> EmptyMap]
save(index) == [state |-> "saved", entries |-> index.entries]
load(file) ==
    IF file.state = "saved"
    THEN [ok |-> TRUE,
          index |-> [some |-> TRUE, entries |-> file.entries]]
    ELSE [ok |-> FALSE, index |-> NoIndex]

\* ids of the index ordered by ascending cosine distance to the query; all
\* orders of equally distant entries are possible
SearchOrders(index, q) ==
    LET ids == DOMAIN index.entries
        n == Cardinality(ids)
    IN { s \in [1..n -> ids] :
            /\ \A i, j \in 1..n : i # j => s[i] # s[j]
            /\ \A i, j \in 1..n : i < j =>
                  Similarity(q, index.entries[s[i]].vec)
                      >= Similarity(q, index.entries[s[j]].vec) }

Prefix(s, k) == IF Len(s) <= k THEN s ELSE SubSeq(s, 1, k)

\* VectorIndex::search: the possible results, each a sequence of
\* SearchResult with the similarity already derived from the distance
search(index, q, k) ==
    { [i \in DOMAIN Prefix(s, k) |->
          [id |-> s[i],
           similarity |-> Similarity(q, index.entries[s[i]].vec)]] :
      s \in SearchOrders(index, q) }

\* VectorIndex::search with its check of the query's length: Err, or the
\* possible results
VectorIndex_search(index, query, k) ==
    IF query.dim # Dimensions
    THEN [ok |-> FALSE, err |-> "DimensionMismatch", results |-> {}]
    ELSE [ok |-> TRUE, err |-> "none",
          results |-> search(index, query.vec, k)]

(***************************************************************************)
(* Relational store: table similar_pairs (crates/akin/src/db/pairs.rs).    *)
(* A row is [id, unit_a, unit_b, similarity, status, trigger_reason];      *)
(* similarities are in thousandths.                                        *)
(***************************************************************************)
PairStatus == {"new", "confirmed", "redundant", "ignored"}

\* id INTEGER PRIMARY KEY: a new row gets the largest rowid plus one
NextRowId(ps) ==
    IF ps = << >> THEN 1
    ELSE 1 + (CHOOSE m \in {ps[i].id : i \in DOMAIN ps} :
                 \A i \in DOMAIN ps : ps[i].id <= m)

\* as InsertPair, replacing the row as INSERT OR REPLACE would
InsertPair_Replace(ps, a, b, similarity, trigger_reason) ==
    LET keep(r) == ~(r.unit_a = a /\ r.unit_b = b)
    IN Append(SelectIdx(ps, keep),
              [id |-> NextRowId(ps), unit_a |-> a, unit_b |-> b,
               similarity |-> similarity, status |-> "new",
               trigger_reason |-> trigger_reason])

\* INSERT ... VALUES (a, b, similarity, 'new', reason)
\* ON CONFLICT(unit_a, unit_b) DO UPDATE SET similarity, trigger_reason
InsertPair(ps, a, b, similarity, trigger_reason) ==
    IF \E i \in DOMAIN ps : ps[i].unit_a = a /\ ps[i].unit_b = b
    THEN [i \in DOMAIN ps |->
            IF ps[i].unit_a = a /\ ps[i].unit_b = b
            THEN [ps[i] EXCEPT !.similarity = similarity,
                               !.trigger_reason = trigger_reason]
            ELSE ps[i]]
    ELSE Append(ps, [id |-> NextRowId(ps), unit_a |-> a, unit_b |-> b,
                     similarity |-> similarity, status |-> "new",
                     trigger_reason |-> trigger_reason])

\* as Canonical, without swapping
Canonical_AsGiven(unit_a, unit_b) == <<unit_a, unit_b>>

\* let (a, b) = if unit_a < unit_b { (unit_a, unit_b) } else { (unit_b, unit_a) }
Canonical(unit_a, unit_b) ==
    IF StrLess(unit_a, unit_b) THEN <<unit_a, unit_b>> ELSE <<unit_b, unit_a>>

\* an f32 NaN is bound as SQL NULL, which the column similarity REAL NOT
\* NULL rejects; with foreign keys enforced, unit_a and unit_b must be
\* qualified names of code_units.  A statement that fails changes nothing.
NaN == 1000 * 1000
StatementFails(db, a, b, similarity) ==
    \/ similarity = NaN
    \/ db.foreign_keys /\ ~(HasUnit(db.units, a) /\ HasUnit(db.units, b))

\* Database::upsert_similar_pair: the result and the rows
upsert_similar_pair(db, unit_a, unit_b, similarity, trigger_reason) ==
    LET ab == Canonical(unit_a, unit_b)
    IN IF StatementFails(db, ab[1], ab[2], similarity)
       THEN [ok |-> FALSE, ps |-> db.pairs]
       ELSE [ok |-> TRUE,
             ps |-> InsertPair(db.pairs, ab[1], ab[2], similarity,
                               trigger_reason)]

\* the loop of batch_upsert_similar_pairs over the list
\* [<<unit_a, unit_b, similarity>>, ...]: it stops at the first statement
\* that fails
RECURSIVE BatchLoop(_, _, _)
BatchLoop(db, list, trigger_reason) ==
    IF list = << >> THEN [ok |-> TRUE, ps |-> db.pairs]
    ELSE LET r == upsert_similar_pair(db, Head(list)[1], Head(list)[2],
                                      Head(list)[3], trigger_reason)
         IN IF r.ok
            THEN BatchLoop([db EXCEPT !.pairs = r.ps], Tail(list),
                           trigger_reason)
            ELSE r

\* Database::batch_upsert_similar_pairs; busy: another connection holds a
\* lock on the database file past the busy timeout when COMMIT runs.  The
\* result, the rows this connection sees and its transaction state:
\*   BEGIN TRANSACTION fails inside an open transaction;
\*   a failed statement is answered with ROLLBACK;
\*   a failed COMMIT is returned with `?`, the transaction still open
\*   (COMMIT of a transaction that wrote nothing takes no lock).
batch_upsert_similar_pairs(db, list, trigger_reason, busy) ==
    LET r == BatchLoop(db, list, trigger_reason)
    IN IF db.in_tx THEN [ok |-> FALSE, ps |-> db.pairs, in_tx |-> TRUE]
       ELSE IF ~r.ok THEN [ok |-> FALSE, ps |-> db.pairs, in_tx |-> FALSE]
       ELSE IF busy /\ list # << >>
       THEN [ok |-> FALSE, ps |-> r.ps, in_tx |-> TRUE]
       ELSE [ok |-> TRUE, ps |-> r.ps, in_tx |-> FALSE]

update_pair_status(ps, pair_id, status) ==
    [i \in DOMAIN ps |->
        IF ps[i].id = pair_id THEN [ps[i] EXCEPT !.status = status] ELSE ps[i]]

delete_pairs_involving(ps, qualified_name) ==
    LET keep(r) == r.unit_a # qualified_name /\ r.unit_b # qualified_name
    IN SelectIdx(ps, keep)

\* get_similar_pairs(None, None, min_similarity): the rows joined with the
\* code unit of either side (the order of the result is not modelled)
get_similar_pairs(ps, us, min_similarity) ==
    LET keep(r) == /\ r.similarity >= min_similarity
                   /\ HasUnit(us, r.unit_a)
                   /\ HasUnit(us, r.unit_b)
    IN SelectIdx(ps, keep)

(***************************************************************************)
(* Dual store (crates/akin/src/store.rs).  A store value st is the record  *)
(* of the fields vector_index, name_to_id, id_to_name and next_id; the     *)
(* database and the index file are passed next to it.                      *)
(***************************************************************************)
\* the connection of the running process
CurDb == Db(units, pairs, in_tx, foreign_keys)

NewStore == [vector_index |-> NoIndex, name_to_id |-> EmptyMap,
             id_to_name |-> EmptyMap, next_id |-> 1]

CurStore == [vector_index |-> vector_index, name_to_id |-> name_to_id,
             id_to_name |-> id_to_name, next_id |-> next_id]

\* every unit of the table gets its position in the scan as id
rebuild_mappings(st, us) ==
    LET F[i \in 0..Len(us)] ==
            IF i = 0 THEN st
            ELSE [F[i - 1] EXCEPT
                    !.name_to_id = Insert(@, us[i].qualified_name, i),
                    !.id_to_name = Insert(@, i, us[i].qualified_name)]
    IN [F[Len(us)] EXCEPT !.next_id = Len(us) + 1]

get_or_allocate_id_Reuse(st, name) ==
    IF name \in DOMAIN st.name_to_id
    THEN [id |-> st.name_to_id[name], st |-> st]
    ELSE [id |-> st.next_id,
          st |-> [st EXCEPT
                    !.name_to_id = Insert(@, name, st.next_id),
                    !.id_to_name = Insert(@, st.next_id, name)]]

get_or_allocate_id(st, name) ==
    IF name \in DOMAIN st.name_to_id
    THEN [id |-> st.name_to_id[name], st |-> st]
    ELSE [id |-> st.next_id,
          st |-> [st EXCEPT
                    !.next_id = @ + 1,
                    !.name_to_id = Insert(@, name, st.next_id),
                    !.id_to_name = Insert(@, st.next_id, name)]]

ensure_vector_index(st, us) ==
    IF st.vector_index.some THEN st
    ELSE [st EXCEPT !.vector_index =
            IF Len(us) > 0 THEN reserve(with_defaults, Len(us) + ReserveStep)
            ELSE with_defaults]

\* as upsert_index, without removing the entry the id already has
upsert_index_NoRemove(st, us, record) ==
    LET embedding == Decoded(record.embedding)
    IN IF ~embedding.some THEN [ok |-> TRUE, st |-> st]
       ELSE
         LET st1 == ensure_vector_index(st, us)
             al == get_or_allocate_id(st1, record.qualified_name)
             res == add(al.st.vector_index, al.id,
                        VecOf(embedding, record.qualified_name))
         IN [ok |-> res.ok, st |-> [al.st EXCEPT !.vector_index = res.index]]

\* Store::upsert_code_unit after the database write: us is the table as
\* written.  The result is the store and whether the call returns Ok.
upsert_index(st, us, record) ==
    LET embedding == Decoded(record.embedding)
    IN IF ~embedding.some THEN [ok |-> TRUE, st |-> st]
       ELSE
         LET st1 == ensure_vector_index(st, us)
             al == get_or_allocate_id(st1, record.qualified_name)
             id == al.id
             ix0 == al.st.vector_index
             ix1 == reserve(ix0, size(ix0) + ReserveStep)
             ix2 == IF contains(ix1, id) THEN remove(ix1, id) ELSE ix1
             res == add(ix2, id, VecOf(embedding, record.qualified_name))
         IN [ok |-> res.ok, st |-> [al.st EXCEPT !.vector_index = res.index]]

\* as rebuild_vector_index, with the mappings left as they were
rebuild_vector_index_KeepMaps(st, us, file) ==
    LET F[i \in 0..Len(us)] ==
            IF i = 0 THEN [ok |-> TRUE, index |-> with_defaults, count |-> 0]
            ELSE LET p == F[i - 1]
                     embedding == Decoded(us[i].embedding)
                 IN IF ~p.ok \/ ~embedding.some THEN p
                    ELSE LET res == add(p.index, i,
                                        VecOf(embedding, us[i].qualified_name))
                         IN [ok |-> res.ok, index |-> res.index,
                             count |-> IF res.ok THEN p.count + 1 ELSE p.count]
        fin == F[Len(us)]
    IN IF fin.ok
       THEN [ok |-> TRUE, count |-> fin.count,
             st |-> [st EXCEPT !.vector_index = fin.index],
             file |-> save(fin.index)]
       ELSE [ok |-> FALSE, count |-> 0, st |-> st, file |-> file]

\* Store::rebuild_vector_index: the store, the index file and the result.
\* On an error the new index is dropped and the file is not written.
rebuild_vector_index(st, us, file) ==
    LET st0 == [st EXCEPT !.name_to_id = EmptyMap, !.id_to_name = EmptyMap,
                          !.next_id = 1]
        ix0 == reserve(with_defaults, Len(us) + ReserveStep)
        \* the state of the loop after i units: store, new index, count
        F[i \in 0..Len(us)] ==
            IF i = 0 THEN [ok |-> TRUE, st |-> st0, index |-> ix0, count |-> 0]
            ELSE LET p == F[i - 1]
                 IN IF ~p.ok THEN p
                    ELSE LET al == get_or_allocate_id(p.st, us[i].qualified_name)
                             embedding == Decoded(us[i].embedding)
                         IN IF ~embedding.some
                            THEN [p EXCEPT !.st = al.st]
                            ELSE LET res == add(p.index, al.id,
                                                VecOf(embedding,
                                                      us[i].qualified_name))
                                 IN [ok |-> res.ok, st |-> al.st,
                                     index |-> res.index,
                                     count |-> IF res.ok THEN p.count + 1
                                               ELSE p.count]
        fin == F[Len(us)]
    IN IF fin.ok
       THEN [ok |-> TRUE, count |-> fin.count,
             st |-> [fin.st EXCEPT !.vector_index = fin.index],
             file |-> save(fin.index)]
       ELSE [ok |-> FALSE, count |-> 0, st |-> fin.st, file |-> file]

\* Store::try_load_vector_index: whether the index was loaded, and the store
try_load_vector_index(st, us, file) ==
    IF file.state # "missing" /\ load(file).ok
    THEN [loaded |-> TRUE,
          st |-> [rebuild_mappings(st, us) EXCEPT
                     !.vector_index = load(file).index]]
    ELSE [loaded |-> FALSE, st |-> st]

\* Store::open: the result, the store it returns and the index file
open(us, file) ==
    LET tl == try_load_vector_index(NewStore, us, file)
    IN IF tl.loaded THEN [ok |-> TRUE, st |-> tl.st, file |-> file]
       ELSE IF Len(get_code_units_by_projects(us)) > 0
       THEN LET rb == rebuild_vector_index(tl.st, us, file)
            IN [ok |-> rb.ok, st |-> rb.st, file |-> rb.file]
       ELSE [ok |-> TRUE, st |-> tl.st, file |-> file]

\* Store::search_similar: the possible results, sequences of
\* [qualified_name, similarity]
search_similar(st, us, q, k, threshold) ==
    LET hit(r) == /\ r.similarity >= threshold
                  /\ r.id \in DOMAIN st.id_to_name
                  /\ get_code_unit(us, st.id_to_name[r.id]) # {}
        unit(r) == [qualified_name |-> st.id_to_name[r.id],
                    similarity |-> r.similarity]
    IN { LET kept == SelectIdx(results, hit)
         IN [i \in DOMAIN kept |-> unit(kept[i])] :
         results \in search(st.vector_index, q, k) }

(***************************************************************************)
(* Batch search and the scan command (src/akin_cli.rs, cmd_scan).          *)
(***************************************************************************)
\* as QueryHits, without the comparison with the threshold
QueryHits_NoThreshold(st, q, k, threshold) ==
    IF q.dim # Dimensions THEN { << >> }
    ELSE LET hit(r) == r.id \in DOMAIN st.id_to_name
         IN { LET kept == SelectIdx(results, hit)
              IN [i \in DOMAIN kept |->
                    <<st.id_to_name[kept[i].id], kept[i].similarity>>] :
              results \in search(st.vector_index, q.vec, k) }

\* the hits of one query of search_batch_parallel: <<name, similarity>> in
\* the order of the search; a search that fails yields no hit
QueryHits(st, q, k, threshold) ==
    IF q.dim # Dimensions THEN { << >> }
    ELSE LET hit(r) == /\ r.similarity >= threshold
                       /\ r.id \in DOMAIN st.id_to_name
         IN { LET kept == SelectIdx(results, hit)
              IN [i \in DOMAIN kept |->
                    <<st.id_to_name[kept[i].id], kept[i].similarity>>] :
              results \in search(st.vector_index, q.vec, k) }

\* Store::search_batch_parallel: the possible results, each the hits of the
\* queries in the order of the queries, as <<query_idx, name, similarity>>
search_batch_parallel(st, queries, k, threshold) ==
    LET tag(i, hits) == [j \in DOMAIN hits |-> <<i, hits[j][1], hits[j][2]>>]
        F[i \in 0..Len(queries)] ==
            IF i = 0 THEN { << >> }
            ELSE { pre \o tag(i, hits) :
                     pre \in F[i - 1],
                     hits \in QueryHits(st, queries[i], k, threshold) }
    IN F[Len(queries)]

\* the units of cmd_scan that have a valid embedding
units_with_emb(us) ==
    LET keep(u) == Decoded(u.embedding).some IN SelectIdx(us, keep)

\* the loop of cmd_scan over the search results: the list new_pairs
new_pairs(us, search_results, cross_only) ==
    LET qs == units_with_emb(us)
        F[i \in 0..Len(search_results)] ==
            IF i = 0 THEN << >>
            ELSE LET r == search_results[i]
                     list == F[i - 1]
                     query_name == qs[r[1]].qualified_name
                     query_project == qs[r[1]].project_id
                     similar_name == r[2]
                     pair == Canonical(query_name, similar_name)
                     seen == { <<list[j][1], list[j][2]>> : j \in DOMAIN list }
                 IN IF similar_name = query_name THEN list
                    ELSE IF /\ cross_only
                            /\ HasUnit(us, similar_name)
                            /\ UnitOf(us, similar_name).project_id = query_project
                    THEN list
                    ELSE IF pair \in seen THEN list
                    ELSE Append(list, <<pair[1], pair[2], r[3]>>)
    IN F[Len(search_results)]

\* the pairs cmd_scan reports after it has re-read the database
reported_pairs(ps, us, cross_only, threshold) ==
    LET all == get_similar_pairs(ps, us, threshold)
        projects == { us[i].project_id : i \in DOMAIN us }
        cross(r) == UnitOf(us, r.unit_a).project_id
                        # UnitOf(us, r.unit_b).project_id
    IN IF cross_only /\ Cardinality(projects) > 1
       THEN SelectIdx(all, cross) ELSE all

(***************************************************************************)
(* The state machine of the dual store.                                    *)
(***************************************************************************)
\* last.file is the state of the index file the operation found, or "fresh"
\* for a file written by save_vector_index as the last thing before the
\* store was closed and opened again
NoName == << >>
Op(op, ok, n, e, f) == [op |-> op, ok |-> ok, name |-> n, emb |-> e, file |-> f]

NoScen == [phase |-> "none", cross |-> FALSE, before |-> 0, after |-> 0]

\* LspClient::new and start: no request yet, the reader thread running
MaxRequests == 3    \* requests the model follows
NoReturn == [how |-> "none", id |-> 0, file |-> "none"]
NoFunctions == [result |-> "none", units |-> << >>, extracted |-> << >>,
                timed_out |-> {}]
LspInit ==
    /\ request_id = 0
    /\ pending = {}
    /\ driver = [at |-> "idle", file |-> 0, step |-> 0]
    /\ stdin = << >>
    /\ stdout = << >>
    /\ server = [up |-> TRUE, received |-> {}, answered |-> {},
                 notified |-> 0]
    /\ chan = {}
    /\ returned = [k \in 1..MaxRequests |-> NoReturn]
    /\ reader_running = TRUE
    /\ functions = NoFunctions

\* no cmd_index is running and the embedder has received no request
Bodies == {"b1", "b2"}
NoRun == [running |-> FALSE, rest |-> << >>]
IndexInit ==
    /\ queue = NoRun
    /\ embed_calls = [b \in Bodies |-> 0]

\* no search_batch_parallel is running
NoBatch == [state |-> "idle"]

\* ArchitectureAnalyzer::new, and no get_call_tree yet
NoTree == [called |-> FALSE]
ArchInit ==
    /\ arch = EmptyMap
    /\ tree = NoTree

\* no Store value exists
SetStoreInit ==
    /\ vector_index = NewStore.vector_index
    /\ name_to_id = NewStore.name_to_id
    /\ id_to_name = NewStore.id_to_name
    /\ next_id = NewStore.next_id

Init ==
    /\ units = << >>
    /\ pairs = << >>
    /\ indexFile = NoFile
    /\ opened = FALSE
    /\ SetStoreInit
    /\ last = Op("init", TRUE, NoName, NullEmb, "missing")
    /\ scen = NoScen
    /\ in_tx = FALSE
    /\ foreign_keys \in BOOLEAN
    /\ IndexInit
    /\ LspInit
    /\ batch = NoBatch
    /\ ArchInit

SetStore(st) ==
    /\ vector_index' = st.vector_index
    /\ name_to_id' = st.name_to_id
    /\ id_to_name' = st.id_to_name
    /\ next_id' = st.next_id

\* the embeddings a caller passes in a record
StoreEmbs == {NullEmb, BlobA, BlobB, BadLenBlob, WrongDimBlob}

\* Store::open; on an error no store is returned
Open ==
    /\ ~opened
    /\ LET r == open(units, indexFile)
       IN /\ opened' = r.ok
          /\ SetStore(IF r.ok THEN r.st ELSE NewStore)
          /\ indexFile' = r.file
          /\ last' = Op("open", r.ok, NoName, NullEmb,
                        IF last.op = "close" /\ last.file = "fresh"
                        THEN "fresh" ELSE indexFile.state)
          /\ scen' = IF scen.phase = "deleted" /\ r.ok
                     THEN [scen EXCEPT !.phase = "reopened"]
                     ELSE IF scen.phase = "scanned" /\ r.ok THEN scen
                     ELSE NoScen
    /\ UNCHANGED <<units, pairs, in_tx, foreign_keys, indexVars, lspVars, batch, archVars>>

\* the store is dropped (the process ends or crashes); nothing is saved
Close ==
    /\ opened
    /\ opened' = FALSE
    /\ SetStore(NewStore)
    /\ last' = Op("close", TRUE, NoName, NullEmb,
                  IF last.op = "save" /\ last.file = "fresh"
                  THEN "fresh" ELSE indexFile.state)
    /\ scen' = IF scen.phase = "scanned" THEN scen ELSE NoScen
    /\ UNCHANGED <<units, pairs, in_tx, foreign_keys, indexFile, indexVars, lspVars, batch, archVars>>

\* Store::upsert_code_unit
UpsertCodeUnit(n, e) ==
    /\ opened
    /\ LET record == CodeUnitRecord(n, e)
           us == db_upsert_code_unit(units, record)
           r == upsert_index(CurStore, us, record)
       IN /\ units' = us
          /\ SetStore(r.st)
          /\ last' = Op("upsert", r.ok, n, e, indexFile.state)
    /\ scen' = NoScen
    /\ UNCHANGED <<pairs, in_tx, foreign_keys, indexFile, opened, indexVars, lspVars, batch, archVars>>

\* Store::upsert_code_unit interrupted by a crash after the database write
\* and before the index write: the row is there and the store is gone
CrashInUpsert(n, e) ==
    /\ opened
    /\ units' = db_upsert_code_unit(units, CodeUnitRecord(n, e))
    /\ opened' = FALSE
    /\ SetStore(NewStore)
    /\ last' = Op("crash", FALSE, n, e, indexFile.state)
    /\ scen' = NoScen
    /\ UNCHANGED <<pairs, in_tx, foreign_keys, indexFile, indexVars, lspVars, batch, archVars>>

\* store.db_mut().delete_code_units_by_file
DbDeleteByFile(f) ==
    /\ opened
    /\ \E i \in DOMAIN units : units[i].file_path = f
    /\ LET r == delete_code_units_by_file(CurDb, f)
       IN /\ units' = r.us
          /\ last' = Op("db_delete", r.ok, NoName, NullEmb, indexFile.state)
    /\ scen' = NoScen
    /\ UNCHANGED <<pairs, in_tx, foreign_keys, indexFile, storeVars, indexVars, lspVars, batch, archVars>>

\* Store::save_vector_index
SaveVectorIndex ==
    /\ opened
    /\ indexFile' = IF vector_index.some THEN save(vector_index) ELSE indexFile
    /\ last' = Op("save", TRUE, NoName, NullEmb,
                  IF vector_index.some THEN "fresh" ELSE indexFile.state)
    /\ scen' = NoScen
    /\ UNCHANGED <<units, pairs, in_tx, foreign_keys, storeVars, indexVars, lspVars, batch, archVars>>

\* Store::rebuild_vector_index called on an open store
RebuildVectorIndex ==
    /\ opened
    /\ LET r == rebuild_vector_index(CurStore, units, indexFile)
       IN /\ SetStore(r.st)
          /\ indexFile' = r.file
          /\ last' = Op("rebuild", r.ok, NoName, NullEmb, indexFile.state)
    /\ scen' = NoScen
    /\ UNCHANGED <<units, pairs, in_tx, foreign_keys, opened, indexVars, lspVars, batch, archVars>>

\* the index file is deleted between two runs
DeleteIndexFile ==
    /\ ~opened
    /\ indexFile.state # "missing"
    /\ indexFile' = NoFile
    /\ last' = Op("delete_file", TRUE, NoName, NullEmb, indexFile.state)
    /\ scen' = IF scen.phase = "scanned" /\ indexFile.state = "saved"
               THEN [scen EXCEPT !.phase = "deleted"] ELSE NoScen
    /\ UNCHANGED <<units, pairs, in_tx, foreign_keys, storeVars, indexVars, lspVars, batch, archVars>>

\* a crash while the file is written leaves a partial file
TruncateIndexFile ==
    /\ ~opened
    /\ indexFile.state = "saved"
    /\ indexFile' = [state |-> "partial", entries |-> EmptyMap]
    /\ last' = Op("truncate_file", TRUE, NoName, NullEmb, indexFile.state)
    /\ scen' = NoScen
    /\ UNCHANGED <<units, pairs, in_tx, foreign_keys, storeVars, indexVars, lspVars, batch, archVars>>

StoreNext ==
    \/ Open
    \/ Close
    \/ \E n \in Names, e \in StoreEmbs : UpsertCodeUnit(n, e)
    \/ \E n \in Names, e \in StoreEmbs : CrashInUpsert(n, e)
    \/ \E f \in Files : DbDeleteByFile(f)
    \/ SaveVectorIndex
    \/ RebuildVectorIndex
    \/ DeleteIndexFile
    \/ TruncateIndexFile

StoreSpec == Init /\ [][StoreNext]_vars

(***************************************************************************)
(* Properties of the dual store.                                           *)
(***************************************************************************)
\* the embedding column decodes to a vector of the index dimension
ValidEmbedding(emb) == Decoded(emb).some /\ Decoded(emb).dim = Dimensions

\* the index holds vector v under the id of the unit called n
IndexHolds(n, v) ==
    /\ vector_index.some
    /\ n \in DOMAIN name_to_id
    /\ name_to_id[n] \in DOMAIN vector_index.entries
    /\ vector_index.entries[name_to_id[n]].vec = v

RowHolds(n, emb) == HasUnit(units, n) /\ UnitOf(units, n).embedding = emb

\* C1: after Store::open has returned a store, every code unit of the
\* database that has a valid embedding is in the vector index under its id,
\* whatever the state of the persisted index file was.
C1_OpenReflectsEveryEmbeddedUnit ==
    (last.op = "open" /\ last.ok) =>
        \A i \in DOMAIN units :
            ValidEmbedding(units[i].embedding) =>
                IndexHolds(units[i].qualified_name,
                           Decoded(units[i].embedding).vec)

\* C2: after upserts and deletions, a save_vector_index and a reopen that
\* loads the saved file, every id of the index maps through id_to_name to the
\* unit whose embedding is stored under that id.
C2_MappingSurvivesReopen ==
    (last.op = "open" /\ last.ok /\ last.file = "fresh") =>
        \A id \in DOMAIN vector_index.entries :
            /\ id \in DOMAIN id_to_name
            /\ id_to_name[id] = vector_index.entries[id].of

Top1(q) == search_similar(CurStore, units, q, 1, 0)

\* C5 as stated: after a successful rebuild_vector_index, a search for the
\* embedding of any unit, with k = 1 and threshold 0, returns that very unit
\* with similarity >= 0.999.
C5_SearchReturnsTheUnit ==
    (last.op = "rebuild" /\ last.ok) =>
        \A i \in DOMAIN units :
            Decoded(units[i].embedding).some =>
                \A res \in Top1(Decoded(units[i].embedding).vec) :
                    /\ Len(res) = 1
                    /\ res[1].qualified_name = units[i].qualified_name
                    /\ res[1].similarity >= 999

\* C5 amended: after a successful rebuild_vector_index the new id of every
\* unit whose embedding decodes holds that embedding, and a search for it
\* with k = 1 and threshold 0 returns, with similarity >= 0.999, a unit
\* stored with that same embedding: the unit itself unless another unit has
\* an identical embedding.
C5_SearchReturnsAUnitWithTheEmbedding ==
    (last.op = "rebuild" /\ last.ok) =>
        \A i \in DOMAIN units :
            Decoded(units[i].embedding).some =>
                /\ IndexHolds(units[i].qualified_name,
                              Decoded(units[i].embedding).vec)
                /\ \A res \in Top1(Decoded(units[i].embedding).vec) :
                    /\ Len(res) = 1
                    /\ res[1].similarity >= 999
                    /\ Decoded(UnitOf(units, res[1].qualified_name).embedding)
                           = Decoded(units[i].embedding)
                    /\ (\A j \in DOMAIN units :
                            j # i => units[j].embedding # units[i].embedding)
                        => res[1].qualified_name = units[i].qualified_name

C5_Witness ==
    /\ last.op = "rebuild"
    /\ last.ok
    /\ Len(units) = 2
    /\ ~units[1].embedding.null
    /\ units[1].embedding = units[2].embedding
    /\ Cardinality(Top1(Decoded(units[1].embedding).vec)) = 2

\* C7: a persisted index file that fails to load is never fatal: Store::open
\* rebuilds from the database and returns a store.
C7_LoadFailureIsNotFatal ==
    (last.op = "open" /\ last.file = "partial") => (last.ok /\ opened)

(***************************************************************************)
(* The scan command run on the open store, all projects selected.  scen    *)
(* follows the scenario: a scan, the index file deleted, the store         *)
(* reopened, the same scan again, with nothing else in between.            *)
(***************************************************************************)
ScanEmbs == {BlobA, BlobB, BlobC, WrongDimBlob}

\* cmd_scan; busy: COMMIT of the batch fails, cmd_scan returns the error and
\* the process ends, which closes the connection and rolls back
Scan(cross_only, busy) ==
    /\ opened
    /\ vector_index.some
    /\ Len(units) >= 2
    /\ Len(units_with_emb(units)) >= 2
    /\ LET qs == units_with_emb(units)
           queries == [i \in DOMAIN qs |-> Decoded(qs[i].embedding)]
       IN \E search_results \in search_batch_parallel(CurStore, queries, ScanK,
                                                      DefaultThreshold) :
            LET r == batch_upsert_similar_pairs(
                         CurDb, new_pairs(units, search_results, cross_only),
                         "scan", busy)
                count == Len(reported_pairs(r.ps, units, cross_only,
                                            DefaultThreshold))
            IN IF r.ok
               THEN /\ pairs' = r.ps
                    /\ scen' = IF /\ scen.phase = "reopened"
                                  /\ scen.cross = cross_only
                               THEN [scen EXCEPT !.phase = "rescanned",
                                                 !.after = count]
                               ELSE [phase |-> "scanned", cross |-> cross_only,
                                     before |-> count, after |-> 0]
                    /\ last' = Op("scan", TRUE, NoName, NullEmb,
                                  indexFile.state)
                    /\ UNCHANGED storeVars
               ELSE /\ pairs' = pairs
                    /\ scen' = NoScen
                    /\ last' = Op("scan", FALSE, NoName, NullEmb,
                                  indexFile.state)
                    /\ opened' = FALSE
                    /\ SetStore(NewStore)
    /\ UNCHANGED <<units, indexFile, in_tx, foreign_keys, indexVars, lspVars, batch, archVars>>

ScanNext ==
    \/ Open
    \/ Close
    \/ \E n \in Names, e \in ScanEmbs : UpsertCodeUnit(n, e)
    \/ \E n \in Names, e \in ScanEmbs : CrashInUpsert(n, e)
    \/ SaveVectorIndex
    \/ DeleteIndexFile
    \/ \E c, busy \in BOOLEAN : Scan(c, busy)

ScanSpec == Init /\ [][ScanNext]_vars

PairNames == { <<1, 2>>, <<2>> }
Similarities == {900, 950}
\* list elements: a pair out of order, a self-pair, and a pair whose
\* similarity is NaN
BatchItems == { <<<<2>>, b, 950>> : b \in PairNames }
                  \cup { <<<<1, 2>>, <<2>>, NaN>> }
Batches == UNION { [1..n -> BatchItems] : n \in 0..MaxBatch }

PairOp(op, ok, a, b, sim, sw, list) ==
    [op |-> op, ok |-> ok, a |-> a, b |-> b, similarity |-> sim,
     swapped |-> sw, list |-> list]

\* the rows fit the bounds of the model
\* the statuses the commands ignore, confirm and redundant set; the model
\* draws two of them
StatusInputs == {"confirmed", "ignored"}

Fits(ps) == NextRowId(ps) <= MaxRowId + 1

UpsertSimilarPair(a, b, sim) ==
    /\ LET r == upsert_similar_pair(CurDb, a, b, sim, "test")
       IN /\ Fits(r.ps)
          /\ pairs' = r.ps
          /\ last' = PairOp("upsert_similar_pair", r.ok, a, b, sim,
                            /\ last.op = "upsert_similar_pair"
                            /\ last.ok /\ r.ok
                            /\ last.a = b /\ last.b = a /\ a # b,
                            << >>)
    /\ UNCHANGED <<units, indexFile, storeVars, scen, in_tx, foreign_keys, indexVars, lspVars, batch, archVars>>

BatchUpsertSimilarPairs(list, busy) ==
    /\ LET r == batch_upsert_similar_pairs(CurDb, list, "scan", busy)
       IN /\ Fits(r.ps)
          /\ pairs' = r.ps
          /\ in_tx' = r.in_tx
          /\ last' = IF list = << >>
                     THEN PairOp("batch_upsert_similar_pairs", r.ok,
                                 NoName, NoName, 0, FALSE, list)
                     ELSE PairOp("batch_upsert_similar_pairs", r.ok,
                                 list[Len(list)][1], list[Len(list)][2],
                                 list[Len(list)][3], FALSE, list)
    /\ UNCHANGED <<units, indexFile, storeVars, scen, foreign_keys, indexVars, lspVars, batch, archVars>>

UpdatePairStatus(pair_id, status) ==
    /\ \E i \in DOMAIN pairs : pairs[i].id = pair_id
    /\ pairs' = update_pair_status(pairs, pair_id, status)
    /\ last' = PairOp("update_pair_status", TRUE, NoName, NoName, 0, FALSE,
                      << >>)
    /\ UNCHANGED <<units, indexFile, storeVars, scen, in_tx, foreign_keys, indexVars, lspVars, batch, archVars>>

DeletePairsInvolving(n) ==
    /\ \E i \in DOMAIN pairs : pairs[i].unit_a = n \/ pairs[i].unit_b = n
    /\ pairs' = delete_pairs_involving(pairs, n)
    /\ last' = PairOp("delete_pairs_involving", TRUE, n, n, 0, FALSE, << >>)
    /\ UNCHANGED <<units, indexFile, storeVars, scen, in_tx, foreign_keys, indexVars, lspVars, batch, archVars>>

PairNext ==
    \/ \E a, b \in PairNames, sim \in Similarities \cup {NaN} :
          UpsertSimilarPair(a, b, sim)
    \/ \E list \in Batches, busy \in BOOLEAN :
          BatchUpsertSimilarPairs(list, busy)
    \/ \E id \in 1..MaxRowId, st \in StatusInputs : UpdatePairStatus(id, st)
    \/ \E n \in PairNames : DeletePairsInvolving(n)

\* a database that holds the code units the pairs are about
PairInit ==
    /\ units = << CodeUnitRecord(<<1, 2>>, NullEmb),
                  CodeUnitRecord(<<2>>, NullEmb) >>
    /\ pairs = << >>
    /\ indexFile = NoFile
    /\ opened = FALSE
    /\ SetStoreInit
    /\ last = PairOp("init", TRUE, NoName, NoName, 0, FALSE, << >>)
    /\ scen = NoScen
    /\ in_tx = FALSE
    /\ foreign_keys \in BOOLEAN
    /\ IndexInit
    /\ LspInit
    /\ batch = NoBatch
    /\ ArchInit

PairSpec == PairInit /\ [][PairNext]_vars

\* the rows that hold names x and y, in either order
RowsOf(x, y) ==
    { i \in DOMAIN pairs : \/ pairs[i].unit_a = x /\ pairs[i].unit_b = y
                           \/ pairs[i].unit_a = y /\ pairs[i].unit_b = x }

\* C8: for distinct names a and b, upsert_similar_pair(a, b, s1) followed by
\* upsert_similar_pair(b, a, s2) leaves exactly one row for the pair, with
\* similarity s2 and with the smaller name in unit_a and the larger in unit_b.
C8_SwappedUpsertUpdatesOneRow ==
    (last.op = "upsert_similar_pair" /\ last.swapped) =>
        /\ Cardinality(RowsOf(last.a, last.b)) = 1
        /\ \A i \in RowsOf(last.a, last.b) :
              /\ pairs[i].similarity = last.similarity
              /\ StrLess(pairs[i].unit_a, pairs[i].unit_b)

C8_Witness ==
    /\ last.op = "upsert_similar_pair"
    /\ last.swapped
    /\ StrLess(last.a, last.b)
    /\ Len(pairs) = 2
    /\ \E i \in RowsOf(last.a, last.b) :
          pairs[i].similarity = 900 /\ pairs[i].status = "confirmed"

\* C9: after any sequence of upsert_similar_pair and
\* batch_upsert_similar_pairs with arbitrary arguments, every row has
\* unit_a < unit_b and no two rows hold the same unordered pair.
C9_RowsAreCanonical ==
    /\ \A i \in DOMAIN pairs : StrLess(pairs[i].unit_a, pairs[i].unit_b)
    /\ \A i, j \in DOMAIN pairs :
          {pairs[i].unit_a, pairs[i].unit_b} = {pairs[j].unit_a, pairs[j].unit_b}
              => i = j

\* C10: an upsert, single or batch, leaves the id and the status of every
\* stored pair as they were; in particular a pair that is ignored, confirmed
\* or redundant is not reset to new.
C10_UpsertKeepsIdAndStatus ==
    [][ last'.op \in {"upsert_similar_pair", "batch_upsert_similar_pairs"} =>
          \A i \in DOMAIN pairs :
             \E j \in DOMAIN pairs' :
                /\ pairs'[j].id = pairs[i].id
                /\ pairs'[j].unit_a = pairs[i].unit_a
                /\ pairs'[j].unit_b = pairs[i].unit_b
                /\ pairs'[j].status = pairs[i].status ]_vars

C10_Witness ==
    /\ last.op = "batch_upsert_similar_pairs"
    /\ last.ok
    /\ last.a # last.b
    /\ \E i \in RowsOf(last.a, last.b) :
          /\ pairs[i].status = "ignored"
          /\ pairs[i].trigger_reason = "scan"
          /\ pairs[i].similarity = last.similarity

\* the row that holds an element of a batch, in canonical order
Stored(ps, item) ==
    \E i \in DOMAIN ps :
       /\ <<ps[i].unit_a, ps[i].unit_b>> = Canonical(item[1], item[2])
       /\ ps[i].trigger_reason = "scan"

\* C11: batch_upsert_similar_pairs is all-or-nothing: when the call returns
\* an error, similar_pairs is exactly as it was before the call and no
\* transaction is left open; when it succeeds, every pair of the batch is
\* stored.
C11_BatchIsAllOrNothing ==
    [][ last'.op = "batch_upsert_similar_pairs" =>
          IF last'.ok
          THEN /\ ~in_tx'
               /\ \A k \in DOMAIN last'.list : Stored(pairs', last'.list[k])
          ELSE /\ pairs' = pairs
               /\ ~in_tx' ]_vars

(***************************************************************************)
(* The two tables together: code units are stored and deleted while pairs  *)
(* reference them.                                                         *)
(***************************************************************************)
\* Database::upsert_code_unit on the connection
DbUpsertCodeUnit(n) ==
    /\ units' = db_upsert_code_unit(units, CodeUnitRecord(n, NullEmb))
    /\ last' = PairOp("upsert_code_unit", TRUE, n, n, 0, FALSE, << >>)
    /\ UNCHANGED <<pairs, indexFile, storeVars, scen, in_tx, foreign_keys, indexVars, lspVars, batch, archVars>>

\* Database::delete_code_units_by_file; last.removed is the set of the
\* qualified names the call removed from code_units
DeleteCodeUnitsByFile(f) ==
    /\ \E i \in DOMAIN units : units[i].file_path = f
    /\ LET r == delete_code_units_by_file(CurDb, f)
       IN /\ units' = r.us
          /\ pairs' = r.ps
          /\ last' = [op |-> "delete_code_units_by_file", ok |-> r.ok,
                      file |-> f,
                      removed |-> { units[i].qualified_name :
                                      i \in DOMAIN units }
                                  \ { r.us[i].qualified_name :
                                        i \in DOMAIN r.us }]
    /\ UNCHANGED <<indexFile, storeVars, scen, in_tx, foreign_keys, indexVars, lspVars, batch, archVars>>

CascadeNext ==
    \/ \E n \in PairNames : DbUpsertCodeUnit(n)
    \/ \E a, b \in PairNames, sim \in Similarities :
          UpsertSimilarPair(a, b, sim)
    \/ \E id \in 1..MaxRowId, st \in StatusInputs : UpdatePairStatus(id, st)
    \/ \E n \in PairNames : DeletePairsInvolving(n)
    \/ \E f \in { FileOf(n) : n \in PairNames } : DeleteCodeUnitsByFile(f)

CascadeSpec == Init /\ [][CascadeNext]_vars

\* C12: after delete_code_units_by_file has removed a code unit, no row of
\* similar_pairs references that unit's qualified_name as unit_a or unit_b.
C12_PairsAreCascadeDeleted ==
    (last.op = "delete_code_units_by_file" /\ last.ok) =>
        \A n \in last.removed :
           \A i \in DOMAIN pairs : pairs[i].unit_a # n /\ pairs[i].unit_b # n

(***************************************************************************)
(* Database::upsert_code_unit and similarity groups: three units, two      *)
(* structure hashes, two groups.                                           *)
(***************************************************************************)
GroupNames == Names \cup { <<3>> }
StructureHashes == {"s1", "s2"}
GroupIds == { {}, {1}, {2} }

GroupRecord(n, sh, g) ==
    [CodeUnitRecord(n, NullEmb) EXCEPT !.structure_hash = sh, !.group_id = g]

\* Database::upsert_code_unit; last.record is the record passed
UpsertGrouped(n, sh, g) ==
    /\ units' = db_upsert_code_unit(units, GroupRecord(n, sh, g))
    /\ last' = [op |-> "upsert_code_unit", record |-> GroupRecord(n, sh, g)]
    /\ UNCHANGED <<pairs, indexFile, storeVars, scen, in_tx, foreign_keys, indexVars, lspVars, batch, archVars>>

GroupNext ==
    \E n \in GroupNames, sh \in StructureHashes, g \in GroupIds :
       UpsertGrouped(n, sh, g)

GroupSpec == Init /\ [][GroupNext]_vars

\* the group_id the stored row of unit n carries, None without a row
StoredGroup(us, n) == IF HasUnit(us, n) THEN UnitOf(us, n).group_id ELSE {}

\* the non-null group_ids of the other units stored under structure_hash sh
GroupsUnder(us, sh, n) ==
    UNION { us[i].group_id : i \in { k \in DOMAIN us :
                                       /\ us[k].structure_hash = sh
                                       /\ us[k].qualified_name # n } }

\* C13: when some other stored unit with the same structure_hash has a
\* non-null group_id, a unit upserted with group_id = null (and holding no
\* group of its own) is stored with the group_id of such a unit, however
\* many other units share the structure_hash and whatever their group_id is.
C13_GroupIsInherited ==
    [][ LET r == last'.record
        IN (/\ last'.op = "upsert_code_unit"
            /\ r.group_id = {}
            /\ StoredGroup(units, r.qualified_name) = {}
            /\ GroupsUnder(units, r.structure_hash, r.qualified_name) # {})
           => /\ StoredGroup(units', r.qualified_name) # {}
              /\ StoredGroup(units', r.qualified_name) \subseteq
                    GroupsUnder(units, r.structure_hash, r.qualified_name)
      ]_vars

\* C14: group inheritance never overrides a group the unit already has: when
\* the stored row or the incoming record carries a non-null group_id, the
\* unit is stored with that group_id (the stored row's first).
C14_OwnGroupIsKept ==
    [][ LET r == last'.record
            own == OrElse(StoredGroup(units, r.qualified_name), r.group_id)
        IN (last'.op = "upsert_code_unit" /\ own # {})
           => StoredGroup(units', r.qualified_name) = own ]_vars

(***************************************************************************)
(* Database::upsert_code_unit on an existing row: two versions of a unit's *)
(* body (kind, range and both hashes) and its embedding.                   *)
(***************************************************************************)
Versions == {"v1", "v2"}

\* the record the indexer builds for version v of unit n
VersionRecord(n, v, e) ==
    [CodeUnitRecord(n, e) EXCEPT
        !.kind = IF v = "v1" THEN "function" ELSE "method",
        !.range_start = IF v = "v1" THEN 1 ELSE 3,
        !.range_end = IF v = "v1" THEN 2 ELSE 5,
        !.content_hash = IF v = "v1" THEN "c1" ELSE "c2",
        !.structure_hash = IF v = "v1" THEN "s1" ELSE "s2"]

UnitEmbs == {NullEmb, BlobA, BlobB, BadLenBlob}

\* Database::upsert_code_unit; last.existed tells that the row was there
UpsertVersion(n, v, e) ==
    /\ units' = db_upsert_code_unit(units, VersionRecord(n, v, e))
    /\ last' = [op |-> "upsert_code_unit", record |-> VersionRecord(n, v, e),
                existed |-> HasUnit(units, n)]
    /\ UNCHANGED <<pairs, indexFile, storeVars, scen, in_tx, foreign_keys, indexVars, lspVars, batch, archVars>>

UnitNext ==
    \E n \in GroupNames, v \in Versions, e \in UnitEmbs :
       UpsertVersion(n, v, e)

UnitSpec == Init /\ [][UnitNext]_vars

\* C15: upsert_code_unit on an existing qualified_name replaces the stored
\* embedding blob only if the incoming record supplies a non-null embedding;
\* with a null embedding the existing blob is preserved, while range, kind
\* and both hashes take the incoming values.
C15_EmbeddingKeptUnlessSupplied ==
    [][ LET r == last'.record
            old == UnitOf(units, r.qualified_name)
            new == UnitOf(units', r.qualified_name)
        IN (last'.op = "upsert_code_unit" /\ last'.existed)
           => /\ new.embedding = IF r.embedding.null THEN old.embedding
                                  ELSE r.embedding
              /\ new.range_start = r.range_start
              /\ new.range_end = r.range_end
              /\ new.kind = r.kind
              /\ new.content_hash = r.content_hash
              /\ new.structure_hash = r.structure_hash ]_vars

\* a unit stored with an embedding was upserted again with a null embedding
\* and another body: the blob is the old one, the other columns are new
C15_Witness ==
    /\ last.op = "upsert_code_unit"
    /\ last.existed
    /\ last.record.embedding.null
    /\ last.record.content_hash = "c2"
    /\ UnitOf(units, last.record.qualified_name).embedding = BlobA
    /\ UnitOf(units, last.record.qualified_name).content_hash = "c2"

(***************************************************************************)
(* cmd_index (src/akin_cli.rs): one run opens the store, processes the     *)
(* extracted units one by one and saves the vector index.  A unit is a     *)
(* qualified name with a body; the embedder answers a request with an      *)
(* embedding, with an embedding of another dimension, or with an error.    *)
(***************************************************************************)
MaxRun == 2         \* units extracted in one run
MaxCalls == 2       \* requests for one body the model follows

\* SHA-256 of the body: distinct bodies, distinct digests
compute_hash(body) == IF body = "b1" THEN "c1" ELSE "c2"
compute_structure_hash(body) == IF body = "b1" THEN "s1" ELSE "s2"

\* as get_embedding_by_content_hash, never finding a row
get_embedding_by_content_hash_Miss(us, content_hash) == {}

\* SELECT embedding FROM code_units WHERE content_hash = ? AND embedding IS
\* NOT NULL LIMIT 1: an Option, the set of its values
get_embedding_by_content_hash(us, content_hash) ==
    LET match == { i \in DOMAIN us : /\ us[i].content_hash = content_hash
                                     /\ ~us[i].embedding.null }
    IN IF match = {} THEN {}
       ELSE { us[CHOOSE i \in match : \A j \in match : i <= j].embedding }

EmbedOutcomes == {"ok", "dim", "err"}

\* embedding_to_bytes(embedder.embed(body)) when the request returns Ok
EmbeddingOf(body, outcome) ==
    IF outcome = "dim" THEN WrongDimBlob
    ELSE IF body = "b1" THEN BlobA ELSE BlobB

RunUnits == [name : Names, body : Bodies]
Runs == UNION { [1..n -> RunUnits] : n \in 0..MaxRun }

\* cmd_index up to its loop: ensure_store and the extraction of the units;
\* with no unit it returns at once
IndexBegin(list) ==
    /\ ~opened
    /\ ~queue.running
    /\ LET o == open(units, indexFile)
       IN /\ indexFile' = o.file
          /\ opened' = (o.ok /\ list # << >>)
          /\ SetStore(IF o.ok /\ list # << >> THEN o.st ELSE NewStore)
          /\ queue' = IF o.ok /\ list # << >>
                      THEN [running |-> TRUE, rest |-> list] ELSE NoRun
          /\ last' = [op |-> "index_begin", ok |-> o.ok]
    /\ UNCHANGED <<units, pairs, scen, in_tx, foreign_keys, embed_calls, lspVars, batch, archVars>>

\* one iteration of the loop of cmd_index; outcome is the embedder's answer
\* if it is asked.  An error of store.upsert_code_unit ends the run.
IndexUnit(outcome) ==
    /\ queue.running
    /\ queue.rest # << >>
    /\ LET unit == Head(queue.rest)
           content_hash == compute_hash(unit.body)
           cached == get_embedding_by_content_hash(units, content_hash)
           requested == cached = {}
           skipped == requested /\ outcome = "err"
           embedding == IF requested THEN EmbeddingOf(unit.body, outcome)
                        ELSE CHOOSE e \in cached : TRUE
           record == [CodeUnitRecord(unit.name, embedding) EXCEPT
                         !.content_hash = content_hash,
                         !.structure_hash = compute_structure_hash(unit.body)]
           us == db_upsert_code_unit(units, record)
           r == upsert_index(CurStore, us, record)
       IN /\ requested => embed_calls[unit.body] < MaxCalls
          /\ embed_calls' = IF requested
                            THEN [embed_calls EXCEPT ![unit.body] = @ + 1]
                            ELSE embed_calls
          /\ last' = [op |-> "index_unit", name |-> unit.name,
                      body |-> unit.body, requested |-> requested,
                      outcome |-> IF requested THEN outcome ELSE "cached",
                      ok |-> skipped \/ r.ok]
          /\ IF skipped
             THEN /\ queue' = [queue EXCEPT !.rest = Tail(@)]
                  /\ UNCHANGED <<units, opened, storeVars>>
             ELSE IF r.ok
             THEN /\ units' = us
                  /\ SetStore(r.st)
                  /\ queue' = [queue EXCEPT !.rest = Tail(@)]
                  /\ UNCHANGED opened
             ELSE /\ units' = us
                  /\ opened' = FALSE
                  /\ SetStore(NewStore)
                  /\ queue' = NoRun
    /\ UNCHANGED <<pairs, indexFile, scen, in_tx, foreign_keys, lspVars, batch, archVars>>

\* the end of cmd_index: store.save_vector_index(), and the process ends
IndexEnd ==
    /\ queue.running
    /\ queue.rest = << >>
    /\ indexFile' = IF vector_index.some THEN save(vector_index) ELSE indexFile
    /\ opened' = FALSE
    /\ SetStore(NewStore)
    /\ queue' = NoRun
    /\ last' = [op |-> "index_end", ok |-> TRUE]
    /\ UNCHANGED <<units, pairs, scen, in_tx, foreign_keys, embed_calls, lspVars, batch, archVars>>

IndexNext ==
    \/ \E list \in Runs : IndexBegin(list)
    \/ \E outcome \in EmbedOutcomes : IndexUnit(outcome)
    \/ IndexEnd

IndexSpec == Init /\ [][IndexNext]_vars

\* the embeddings stored with content_hash ch
CachedUnder(us, ch) ==
    { us[i].embedding : i \in { k \in DOMAIN us :
                                  /\ us[k].content_hash = ch
                                  /\ ~us[k].embedding.null } }

\* a unit whose content_hash is stored with an embedding triggers no
\* request and is stored with the cached bytes
CacheIsReused ==
    (/\ last'.op = "index_unit"
     /\ CachedUnder(units, compute_hash(last'.body)) # {})
    => /\ ~last'.requested
       /\ embed_calls' = embed_calls
       /\ UnitOf(units', last'.name).embedding
             \in CachedUnder(units, compute_hash(last'.body))

\* C16: a unit whose body has the content_hash of a unit already stored with
\* an embedding triggers no embedding request and is stored with the cached
\* bytes, so the embedder is called exactly once per distinct body.
C16_EmbedderCalledOncePerBody ==
    [][ /\ CacheIsReused
        /\ \A b \in Bodies : embed_calls'[b] <= 1 ]_vars

\* C16 as the code has it: a unit whose body has the content_hash of a unit
\* stored with an embedding triggers no request and is stored with the
\* cached bytes; the embedder is asked exactly when no stored unit holds an
\* embedding under the content_hash, which happens again for a body whose
\* request failed or whose units have all changed their body since.
C16_EmbedderCalledOnCacheMiss ==
    [][ /\ CacheIsReused
        /\ (last'.op = "index_unit" /\ last'.requested)
              => /\ CachedUnder(units, compute_hash(last'.body)) = {}
                 /\ embed_calls'[last'.body] = embed_calls[last'.body] + 1
      ]_vars

\* the second unit of a run has the body of the first: it was stored with
\* the cached embedding and the embedder was asked once for the body
C16_Witness ==
    /\ last.op = "index_unit"
    /\ last.outcome = "cached"
    /\ last.body = "b1"
    /\ embed_calls["b1"] = 1
    /\ Len(units) = 2
    /\ \A i \in DOMAIN units : units[i].embedding = BlobA

(***************************************************************************)
(* crates/lsp: the client of a language server.  One driver task calls     *)
(* get_functions, which sends one didOpen notification and one             *)
(* documentSymbol request per source file; request takes &mut self, so one *)
(* request is outstanding at a time.  A reader thread delivers what the    *)
(* server writes.  The client declares no capability that lets a server    *)
(* send requests of its own (initialize declares documentSymbol,           *)
(* callHierarchy and references only), so the server here sends responses  *)
(* to the requests it has read, once each, and notifications.              *)
(***************************************************************************)
MaxNotifications == 1   \* notifications the server sends on its own

\* get_source_files: the source files of the workspace
SourceFiles == <<"a.rs", "b.rs">>

\* extract_functions over the symbols of one file: its functions
extract_functions(symbols) == <<[qualified_name |-> symbols]>>

\* the order in which LspClient::request registers the waiter, writes the
\* header and the body, flushes, and awaits the response
RequestOrder_WriteFirst == <<"header", "body", "flush", "register", "await">>

RequestOrder == <<"register", "header", "body", "flush", "await">>

\* the receiver of request id has not been dropped: request has not returned
RxAlive(id) == driver.at = "request" /\ request_id = id /\ driver.step >= 1

\* one message of read_responses with a thread that panics on a failed send
deliver_Unwrap(pend, msg, alive) ==
    IF msg.id = {} \/ msg.id \cap pend = {}
    THEN [pending |-> pend, sent |-> {}, running |-> TRUE]
    ELSE [pending |-> pend \ msg.id,
          sent |-> IF alive THEN {msg} ELSE {},
          running |-> alive]

\* as deliver, with a message without an id handed to a waiter
deliver_AnyWaiter(pend, msg, alive) ==
    IF msg.id \cap pend = {} /\ (msg.id # {} \/ pend = {})
    THEN [pending |-> pend, sent |-> {}, running |-> TRUE]
    ELSE LET id == IF msg.id # {} THEN msg.id
                   ELSE {CHOOSE k \in pend : TRUE}
         IN [pending |-> pend \ id, sent |-> {msg}, running |-> TRUE]

\* one message of read_responses: a message with an integer id whose id is
\* in pending takes the sender out and sends; a failed send is ignored
deliver(pend, msg, alive) ==
    IF msg.id = {} \/ msg.id \cap pend = {}
    THEN [pending |-> pend, sent |-> {}, running |-> TRUE]
    ELSE [pending |-> pend \ msg.id,
          sent |-> IF alive THEN {msg} ELSE {},
          running |-> TRUE]

\* get_functions is called on a started adapter
GetFunctions ==
    /\ driver.at = "idle"
    /\ server.up
    /\ request_id + Len(SourceFiles) <= MaxRequests
    /\ driver' = [at |-> "file", file |-> 1, step |-> 0]
    /\ functions' = [NoFunctions EXCEPT !.result = "running"]
    /\ UNCHANGED <<request_id, pending, stdin, stdout, server, chan, returned,
                   reader_running>>

\* open_file: the didOpen notification of the next file is written
OpenFile ==
    /\ driver.at = "file"
    /\ stdin' = Append(stdin, [kind |-> "notify", id |-> 0,
                               file |-> SourceFiles[driver.file]])
    /\ driver' = [driver EXCEPT !.at = "request", !.step = 0]
    /\ UNCHANGED <<request_id, pending, stdout, server, chan, returned,
                   reader_running, functions>>

\* request: the id is taken
NextRequestId ==
    /\ driver.at = "request"
    /\ driver.step = 0
    /\ request_id' = request_id + 1
    /\ driver' = [driver EXCEPT !.step = 1]
    /\ UNCHANGED <<pending, stdin, stdout, server, chan, returned,
                   reader_running, functions>>

\* request: the next of its steps before the await
RequestStep ==
    /\ driver.at = "request"
    /\ driver.step >= 1
    /\ RequestOrder[driver.step] # "await"
    /\ LET step == RequestOrder[driver.step]
           item == [kind |-> step, id |-> request_id,
                    file |-> SourceFiles[driver.file]]
       IN /\ pending' = IF step = "register"
                        THEN pending \cup {request_id} ELSE pending
          /\ stdin' = IF step \in {"header", "body"}
                      THEN Append(stdin, item) ELSE stdin
    /\ driver' = [driver EXCEPT !.step = @ + 1]
    /\ UNCHANGED <<request_id, stdout, server, chan, returned, reader_running,
                   functions>>

\* request: the message is received; a result goes to extract_functions,
\* an error, or a message with neither result nor error ("No result"), ends
\* get_functions
Receive ==
    /\ driver.at = "request"
    /\ driver.step >= 1
    /\ RequestOrder[driver.step] = "await"
    /\ chan # {}
    /\ LET msg == CHOOSE m \in chan : TRUE
           collected == functions.units \o extract_functions(msg.file)
           more == driver.file < Len(SourceFiles)
       IN /\ returned' = [returned EXCEPT
                          ![request_id] = [how |-> msg.kind,
                                           id |-> CHOOSE k \in msg.id : TRUE,
                                           file |-> msg.file]]
          /\ IF msg.kind # "result"
             THEN /\ functions' = [functions EXCEPT !.result = "err",
                                                    !.units = << >>]
                  /\ driver' = [at |-> "idle", file |-> 0, step |-> 0]
             ELSE /\ functions' = [functions EXCEPT
                                   !.units = collected,
                                   !.extracted = collected,
                                   !.result = IF more THEN "running"
                                              ELSE "ok"]
                  /\ driver' = IF more
                               THEN [at |-> "file", file |-> driver.file + 1,
                                     step |-> 0]
                               ELSE [at |-> "idle", file |-> 0, step |-> 0]
    /\ chan' = {}
    /\ UNCHANGED <<request_id, pending, stdin, stdout, server,
                   reader_running>>

\* request: 30 s pass with nothing in the channel; Timeout goes through the
\* ? of get_functions, the waiter stays in pending
Timeout ==
    /\ driver.at = "request"
    /\ driver.step >= 1
    /\ RequestOrder[driver.step] = "await"
    /\ chan = {}
    /\ returned' = [returned EXCEPT
                    ![request_id] = [how |-> "timeout", id |-> 0,
                                     file |-> SourceFiles[driver.file]]]
    /\ functions' = [functions EXCEPT
                     !.result = "err", !.units = << >>,
                     !.timed_out = @ \cup {SourceFiles[driver.file]}]
    /\ driver' = [at |-> "idle", file |-> 0, step |-> 0]
    /\ UNCHANGED <<request_id, pending, stdin, stdout, server, chan,
                   reader_running>>

\* the server reads one whole message: a notification, or the header and
\* the body of a request
ServerRead ==
    /\ server.up
    /\ stdin # << >>
    /\ \/ /\ Head(stdin).kind = "notify"
          /\ stdin' = Tail(stdin)
          /\ UNCHANGED server
       \/ /\ Head(stdin).kind = "header"
          /\ Len(stdin) >= 2
          /\ stdin[2].kind = "body"
          /\ stdin' = Tail(Tail(stdin))
          /\ server' = [server EXCEPT
                        !.received = @ \cup {[id |-> Head(stdin).id,
                                              file |-> Head(stdin).file]}]
    /\ UNCHANGED <<request_id, pending, driver, stdout, chan, returned,
                   reader_running, functions>>

\* the server answers a request it has read, with a result or an error
ServerRespond(req, kind) ==
    /\ server.up
    /\ req \in server.received
    /\ req.id \notin server.answered
    /\ stdout' = Append(stdout, [id |-> {req.id}, kind |-> kind,
                                 file |-> req.file])
    /\ server' = [server EXCEPT !.answered = @ \cup {req.id}]
    /\ UNCHANGED <<request_id, pending, driver, stdin, chan, returned,
                   reader_running, functions>>

\* the server sends a notification: a message without an id
ServerNotify ==
    /\ server.up
    /\ server.notified < MaxNotifications
    /\ stdout' = Append(stdout, [id |-> {}, kind |-> "notification",
                                 file |-> "none"])
    /\ server' = [server EXCEPT !.notified = @ + 1]
    /\ UNCHANGED <<request_id, pending, driver, stdin, chan, returned,
                   reader_running, functions>>

\* read_responses: one turn of its loop
ReadResponse ==
    /\ reader_running
    /\ stdout # << >>
    /\ LET msg == Head(stdout)
           r == deliver(pending, msg,
                        \E id \in msg.id : RxAlive(id))
       IN /\ pending' = r.pending
          /\ chan' = IF r.sent # {} THEN r.sent ELSE chan
          /\ reader_running' = r.running
    /\ stdout' = Tail(stdout)
    /\ UNCHANGED <<request_id, driver, stdin, server, returned, functions>>

\* shutdown: the server is killed
Shutdown ==
    /\ driver.at = "idle"
    /\ server.up
    /\ request_id >= 1
    /\ server' = [server EXCEPT !.up = FALSE]
    /\ UNCHANGED <<request_id, pending, driver, stdin, stdout, chan, returned,
                   reader_running, functions>>

\* read_responses: end of file on the pipe of a dead server
ReadEof ==
    /\ reader_running
    /\ ~server.up
    /\ stdout = << >>
    /\ reader_running' = FALSE
    /\ UNCHANGED <<request_id, pending, driver, stdin, stdout, server, chan,
                   returned, functions>>

akinVars == <<units, pairs, indexFile, opened, vector_index, name_to_id,
              id_to_name, next_id, last, scen, in_tx, foreign_keys, queue,
              embed_calls, batch, arch, tree>>

LspNext ==
    \/ GetFunctions /\ UNCHANGED akinVars
    \/ OpenFile /\ UNCHANGED akinVars
    \/ NextRequestId /\ UNCHANGED akinVars
    \/ RequestStep /\ UNCHANGED akinVars
    \/ Receive /\ UNCHANGED akinVars
    \/ Timeout /\ UNCHANGED akinVars
    \/ ServerRead /\ UNCHANGED akinVars
    \/ \E req \in server.received, kind \in {"result", "error"} :
           ServerRespond(req, kind) /\ UNCHANGED akinVars
    \/ ServerNotify /\ UNCHANGED akinVars
    \/ ReadResponse /\ UNCHANGED akinVars
    \/ Shutdown /\ UNCHANGED akinVars
    \/ ReadEof /\ UNCHANGED akinVars

LspSpec == Init /\ [][LspNext]_vars

\* the ids whose request has bytes in the pipe or in the server
Written == {stdin[i].id : i \in {j \in DOMAIN stdin : stdin[j].kind # "notify"}}
               \cup {req.id : req \in server.received}

\* the ids of the responses the reader has not yet read
Responded == {k \in 1..MaxRequests : \E i \in DOMAIN stdout : stdout[i].id = {k}}

\* C17: a request has no byte in the pipe before its waiter is in pending,
\* so every response the server has written and the reader has not yet read
\* has its waiter in pending, whatever the driver and the reader did in
\* between; and what the channel of a request holds is its response
C17_WaiterRegisteredBeforeWrite ==
    /\ \A k \in Written :
           k \in pending \/ k \in server.answered
    /\ \A k \in Responded : k \in pending
    /\ \A msg \in chan : msg.id = {request_id} /\ request_id \notin pending

\* the response is in the channel before the driver has flushed
C17_Witness ==
    /\ driver.at = "request"
    /\ driver.step >= 1
    /\ RequestOrder[driver.step] = "flush"
    /\ chan # {}
    /\ \A msg \in chan : msg.id = {request_id}

\* C18: after a timeout the reader thread runs as long as the server does,
\* a request that returns a response returns the one with its own id and
\* its own file, a request that timed out stays timed out, and a later
\* request that awaits its response still has its waiter in pending
C18_TimeoutDoesNotPoison ==
    /\ (\E k \in 1..MaxRequests : returned[k].how = "timeout") /\ server.up
           => reader_running
    /\ \A k \in 1..MaxRequests :
           returned[k].how \in {"result", "error"} => returned[k].id = k
    /\ \A msg \in chan : /\ msg.id = {request_id}
                         /\ returned[request_id].how = "none"
    /\ \A k \in Responded :
           (RxAlive(k) /\ \E j \in 1..(k - 1) : returned[j].how = "timeout")
               => k \in pending

\* request 1 timed out, its late response was read and dropped, and
\* request 2 returned its own result
C18_Witness ==
    /\ returned[1].how = "timeout"
    /\ 1 \in server.answered
    /\ 1 \notin pending
    /\ returned[2].how = "result"
    /\ returned[2].id = 2

\* C19: a get_functions in which the request of one file timed out returns
\* Ok with the units extracted from the other files
C19_TimeoutSkipsOneFile ==
    (functions.result \in {"ok", "err"} /\ functions.timed_out # {})
        => /\ functions.result = "ok"
           /\ functions.units = functions.extracted

(***************************************************************************)
(* cmd_scan over three units, two of them in one project: units are        *)
(* stored and scanned.                                                     *)
(***************************************************************************)
CrossNames == Names \cup {<<1, 2>>}
CrossEmbs == {BlobA}

CrossNext ==
    \/ Open
    \/ \E n \in CrossNames, e \in CrossEmbs : UpsertCodeUnit(n, e)
    \/ \E c, busy \in BOOLEAN : Scan(c, busy)

CrossSpec == Init /\ [][CrossNext]_vars

\* the lists cmd_scan can hand to batch_upsert_similar_pairs in this state
ScanLists(cross_only) ==
    IF opened /\ vector_index.some /\ Len(units_with_emb(units)) >= 2
    THEN LET qs == units_with_emb(units)
             queries == [i \in DOMAIN qs |-> Decoded(qs[i].embedding)]
         IN { new_pairs(units, search_results, cross_only) :
                search_results \in search_batch_parallel(
                    CurStore, queries, ScanK, DefaultThreshold) }
    ELSE {}

\* both names have a row and the rows have the same project
SameProject(a, b) ==
    /\ HasUnit(units, a)
    /\ HasUnit(units, b)
    /\ UnitOf(units, a).project_id = UnitOf(units, b).project_id

\* C20: the list a scan hands to batch_upsert_similar_pairs has no pair of a
\* unit with itself, has name_a < name_b in every pair, has each unordered
\* pair at most once, and with cross_only has no pair of two units of the
\* same project
C20_ScanListIsCanonical ==
    \A cross_only \in BOOLEAN : \A list \in ScanLists(cross_only) :
        \A i \in DOMAIN list :
            /\ list[i][1] # list[i][2]
            /\ StrLess(list[i][1], list[i][2])
            /\ \A j \in DOMAIN list :
                   {list[i][1], list[i][2]} = {list[j][1], list[j][2]}
                       => i = j
            /\ cross_only => ~SameProject(list[i][1], list[i][2])

\* a scan has run where two units of one project and a unit of another all
\* find each other: the list without cross_only has three pairs, the list
\* with cross_only has the two that cross projects
C20_Witness ==
    /\ last.op = "scan"
    /\ last.ok
    /\ \E list \in ScanLists(FALSE) : Len(list) = 3
    /\ \E list \in ScanLists(TRUE) :
           /\ Len(list) = 2
           /\ \E a, b \in CrossNames : a # b /\ SameProject(a, b)

(***************************************************************************)
(* The PostToolUse hook (crates/akin/src/hook).  The hook is a process of  *)
(* its own: it extracts the units of the edited file, opens the store,     *)
(* asks the embedder for each unit and looks for similar stored units,     *)
(* through the index when the store has one and by comparing with every    *)
(* stored embedding otherwise.  An Option is the set of its values.        *)
(***************************************************************************)
HookThreshold == 850   \* HookConfig::default().threshold, in thousandths
AnnFloor == 50         \* the least k of the ANN search of the hook

HookScopes == {"all", "project", "cross"}
NotifyModes == {"block", "user"}

\* HookConfig; threshold and model are left at their defaults
HookConfig(scope, max_results, notify) ==
    [threshold |-> HookThreshold, scope |-> scope,
     max_results |-> max_results, notify |-> notify]

\* Database::get_project_by_path(cwd).ok().flatten().map(|proj| proj.id):
\* the projects table holds the projects of the files; the root path of a
\* project is written as its id
get_project_by_path(cwd) == { p \in cwd : p \in Files }

\* Database::get_code_units_by_projects(Some(project_ids))
get_code_units_of_projects(us, project_ids) ==
    LET keep(u) == u.project_id \in project_ids IN SelectIdx(us, keep)

\* the set ignored_pairs of the matcher:
\* get_similar_pairs(None, Some(Ignored), 0.0), each row in both directions
ignored_pairs(db) ==
    LET rows == get_similar_pairs(db.pairs, db.units, 0)
    IN UNION { {<<rows[i].unit_a, rows[i].unit_b>>,
                <<rows[i].unit_b, rows[i].unit_a>>} :
               i \in {j \in DOMAIN rows : rows[j].status = "ignored"} }

\* SimilarityMatch
SimilarityMatch(unit, name, similarity, project_id, current_project_id) ==
    [current_name |-> unit.qualified_name, similar_name |-> name,
     similarity |-> similarity,
     is_cross_project |-> project_id \notin current_project_id]

\* sort_by(|a, b| b.similarity.partial_cmp(&a.similarity)): a stable sort
\* by descending similarity
RECURSIVE sort_by_similarity(_)
sort_by_similarity(s) ==
    IF s = << >> THEN << >>
    ELSE LET i == CHOOSE i \in DOMAIN s :
                      /\ \A j \in DOMAIN s : s[j].similarity <= s[i].similarity
                      /\ \A j \in 1..(i - 1) : s[j].similarity < s[i].similarity
             rest == [j \in 1..(Len(s) - 1) |-> IF j < i THEN s[j] ELSE s[j + 1]]
         IN <<s[i]>> \o sort_by_similarity(rest)

\* the loop of find_similar_units over the stored embeddings for one unit:
\* the matches, or a panic of ndarray's dot on vectors of two lengths
brute_force_unit(db_embeddings, ignored, unit, current_project_id, config) ==
    LET new_embedding == unit.embedding
        F[i \in 0..Len(db_embeddings)] ==
            IF i = 0 THEN [panic |-> FALSE, similarities |-> << >>]
            ELSE LET p == F[i - 1]
                     db_unit == db_embeddings[i]
                     db_emb == Decoded(db_unit.embedding)
                     sim == Similarity(new_embedding.vec, db_emb.vec)
                 IN IF p.panic THEN p
                    ELSE IF db_unit.qualified_name = unit.qualified_name
                    THEN p
                    ELSE IF <<unit.qualified_name, db_unit.qualified_name>>
                                \in ignored
                    THEN p
                    ELSE IF /\ config.scope = "cross"
                            /\ db_unit.project_id \in current_project_id
                    THEN p
                    ELSE IF db_emb.dim # new_embedding.dim
                    THEN [p EXCEPT !.panic = TRUE]
                    ELSE IF sim >= config.threshold
                    THEN [p EXCEPT !.similarities =
                            Append(@, SimilarityMatch(
                                          unit, db_unit.qualified_name, sim,
                                          db_unit.project_id,
                                          current_project_id))]
                    ELSE p
        fin == F[Len(db_embeddings)]
    IN [panic |-> fin.panic,
        matches |-> Prefix(sort_by_similarity(fin.similarities),
                           config.max_results)]

\* find_similar_units: [panic, matches]; units is the list of extracted
\* units, each with the answer of the embedder (None: the request failed)
find_similar_units(db, units_in, cwd, config) ==
    LET current_project_id == get_project_by_path(cwd)
        db_units == IF config.scope = "project" /\ current_project_id # {}
                    THEN get_code_units_of_projects(db.units,
                                                    current_project_id)
                    ELSE get_code_units_by_projects(db.units)
        ignored == ignored_pairs(db)
        db_embeddings == units_with_emb(db_units)
        F[i \in 0..Len(units_in)] ==
            IF i = 0 THEN [panic |-> FALSE, matches |-> << >>]
            ELSE LET p == F[i - 1]
                     r == brute_force_unit(db_embeddings, ignored, units_in[i],
                                           current_project_id, config)
                 IN IF p.panic \/ ~units_in[i].embedding.some THEN p
                    ELSE [panic |-> r.panic,
                          matches |-> IF r.panic THEN << >>
                                      ELSE p.matches \o r.matches]
    IN IF db_embeddings = << >> THEN [panic |-> FALSE, matches |-> << >>]
       ELSE F[Len(units_in)]

\* as search_filtered, with the filter left out
search_filtered_Unfiltered(index, q, k, allowed) == search(index, q, k)

\* VectorIndex::search_filtered: the k nearest among the ids the predicate
\* accepts; allowed is the set of the ids for which the predicate is true
search_filtered(index, q, k, allowed) ==
    LET keep(id) == id \in allowed
    IN { LET t == Prefix(SelectIdx(s, keep), k)
         IN [i \in DOMAIN t |->
               [id |-> t[i],
                similarity |-> Similarity(q, index.entries[t[i]].vec)]] :
         s \in SearchOrders(index, q) }

\* the id filter of search_similar_filtered: an id passes when it has a name
\* and the name passes the name filter
id_filter(st, allowed) ==
    { id \in DOMAIN st.id_to_name : st.id_to_name[id] \in allowed }

\* Store::search_similar_filtered: Err, or the possible results, sequences
\* of SimilarUnit; allowed is the set of the names the filter accepts
search_similar_filtered(st, us, query, k, threshold, allowed) ==
    IF ~st.vector_index.some \/ query.dim # Dimensions
    THEN [ok |-> FALSE, results |-> {}]
    ELSE LET hit(r) == /\ r.similarity >= threshold
                       /\ r.id \in DOMAIN st.id_to_name
                       /\ get_code_unit(us, st.id_to_name[r.id]) # {}
             unit(r) == LET u == UnitOf(us, st.id_to_name[r.id])
                        IN [qualified_name |-> u.qualified_name,
                            project_id |-> u.project_id,
                            similarity |-> r.similarity]
         IN [ok |-> TRUE,
             results |->
               { LET kept == SelectIdx(results, hit)
                 IN [i \in DOMAIN kept |-> unit(kept[i])] :
                 results \in search_filtered(st.vector_index, query.vec, k,
                                             id_filter(st, allowed)) }]

\* the loop of find_similar_units_ann over the units of one search result
ann_unit(similar_units, unit, current_project_id, config) ==
    LET F[i \in 0..Len(similar_units)] ==
            IF i = 0 THEN [done |-> FALSE, similarities |-> << >>]
            ELSE LET p == F[i - 1]
                     su == similar_units[i]
                     pushed == Append(p.similarities,
                                 SimilarityMatch(unit, su.qualified_name,
                                                 su.similarity, su.project_id,
                                                 current_project_id))
                 IN IF p.done THEN p
                    ELSE IF /\ config.scope = "cross"
                            /\ su.project_id \in current_project_id
                    THEN p
                    ELSE IF /\ config.scope = "project"
                            /\ current_project_id # {}
                            /\ su.project_id \notin current_project_id
                    THEN p
                    ELSE [done |-> Len(pushed) >= config.max_results,
                          similarities |-> pushed]
    IN F[Len(similar_units)].similarities

\* the names the filter closure of find_similar_units_ann accepts
ann_filter(st, ignored, unit) ==
    { name \in Range(st.id_to_name) :
        /\ name # unit.qualified_name
        /\ <<unit.qualified_name, name>> \notin ignored }

\* k = (config.max_results * 3).max(50)
ann_k(config) ==
    IF config.max_results * 3 > AnnFloor THEN config.max_results * 3
    ELSE AnnFloor

\* find_similar_units_ann: the possible results, each [panic, matches]
find_similar_units_ann(st, db, units_in, cwd, config) ==
    LET current_project_id == get_project_by_path(cwd)
        ignored == ignored_pairs(db)
        F[i \in 0..Len(units_in)] ==
            IF i = 0 THEN { << >> }
            ELSE LET unit == units_in[i]
                     prev == F[i - 1]
                     sr == search_similar_filtered(
                               st, db.units, unit.embedding, ann_k(config),
                               config.threshold, ann_filter(st, ignored, unit))
                 IN IF ~unit.embedding.some \/ ~sr.ok THEN prev
                    ELSE { pre \o ann_unit(similar_units, unit,
                                           current_project_id, config) :
                             pre \in prev, similar_units \in sr.results }
    IN { [panic |-> FALSE, matches |-> m] : m \in F[Len(units_in)] }

\* HookResult
HookResult_empty == [decision |-> {}, reason |-> {}, system_message |-> {}]
\* a block result that also carries the reason as systemMessage
HookResult_block_WithMessage(reason) ==
    [decision |-> {"block"}, reason |-> {reason}, system_message |-> {reason}]

HookResult_block(reason) ==
    [decision |-> {"block"}, reason |-> {reason}, system_message |-> {}]
HookResult_notify(message) ==
    [decision |-> {}, reason |-> {}, system_message |-> {message}]

\* format_result: per match the percentage, the cross-project mark and the
\* two names; an empty list gives the empty string
format_result(results) ==
    [i \in DOMAIN results |->
        <<results[i].similarity \div 10, results[i].is_cross_project,
          results[i].current_name, results[i].similar_name>>]

\* handle_post_tool_use and the println of run_hook: the possible runs, each
\* with the path taken, the matches, the output (none after a panic) and
\* the index file the store left; o is what Store::open returns on the
\* database and the index file; input.units is what extract_functions found
\* in the content (nothing when the payload lacks tool_input, file_path or
\* content or names no code file)
handle_post_tool_use(db, file, o, input, config) ==
    LET run(path, r, f) ==
            [path |-> path, matches |-> r.matches, file |-> f,
             out |-> IF r.panic THEN {}
                     ELSE IF r.matches = << >> THEN {HookResult_empty}
                     ELSE IF config.notify = "block"
                     THEN {HookResult_block(format_result(r.matches))}
                     ELSE {HookResult_notify(format_result(r.matches))}]
        nothing == [panic |-> FALSE, matches |-> << >>]
    IN IF input.units = << >> THEN { run("none", nothing, file) }
       ELSE IF ~o.ok THEN { run("none", nothing, o.file) }
       ELSE IF o.st.vector_index.some
       THEN { run("ann", r, o.file) :
                r \in find_similar_units_ann(o.st, db, input.units, input.cwd,
                                             config) }
       ELSE { run("brute", find_similar_units(db, input.units, input.cwd,
                                              config), o.file) }

(***************************************************************************)
(* The hook over a database that akin index, scans and akin ignore write.  *)
(***************************************************************************)
HookEmbs == {BlobA}
HookSims == {900, 0 - 300}
MaxResults == {0, 1, 3}

\* the extracted units of a payload: none, or the unit <<1>> with the
\* answer of the embedder: the vector of the stored bodies, a vector far
\* from it, a vector of another model's dimension, or an error
HookUnits ==
    { << >> } \cup
    { <<[qualified_name |-> <<1>>, embedding |-> q]>> :
        q \in {Some(Dimensions, VecA), Some(Dimensions, VecC),
               Some(2, VecA), None} }

\* cwd: absent, the root of project 1, a directory that is no indexed project
HookCwds == { {}, {1}, {9} }
HookInputs == [units : HookUnits, cwd : HookCwds]
HookConfigs ==
    { HookConfig(scope, max_results, notify) :
        scope \in HookScopes, max_results \in MaxResults,
        notify \in NotifyModes }

\* akin index over one unit: ensure_store, upsert_code_unit,
\* save_vector_index; an error ends the command where it occurs
CmdIndex(n, e) ==
    /\ ~opened
    /\ Len(units) < MaxRowId \/ HasUnit(units, n)
    /\ LET o == open(units, indexFile)
           record == CodeUnitRecord(n, e)
           us == db_upsert_code_unit(units, record)
           r == upsert_index(o.st, us, record)
       IN /\ units' = IF o.ok THEN us ELSE units
          /\ indexFile' = IF o.ok /\ r.ok /\ r.st.vector_index.some
                          THEN save(r.st.vector_index) ELSE o.file
          /\ last' = [op |-> "index", ok |-> o.ok /\ r.ok]
    /\ UNCHANGED <<pairs, opened, storeVars, scen, in_tx, foreign_keys,
                   indexVars, lspVars, batch, archVars>>

\* akin ignore: the pair is looked up among get_similar_pairs(None, None,
\* 0.0) and its status set; last.after holds the payload and the
\* configuration of a hook that ran just before and reported this pair
CmdIgnore(unit_a, unit_b) ==
    /\ LET ab == Canonical(unit_a, unit_b)
           rows == get_similar_pairs(pairs, units, 0)
           found == { i \in DOMAIN rows : /\ rows[i].unit_a = ab[1]
                                          /\ rows[i].unit_b = ab[2] }
           p == rows[CHOOSE i \in found : TRUE]
       IN /\ pairs' = IF found = {} THEN pairs
                      ELSE update_pair_status(pairs, p.id, "ignored")
          /\ last' = [op |-> "ignore", ok |-> TRUE, found |-> found # {},
                      a |-> ab[1], b |-> ab[2],
                      after |->
                        IF /\ last.op = "hook"
                           /\ \E i \in DOMAIN last.matches :
                                Canonical(last.matches[i].current_name,
                                          last.matches[i].similar_name) = ab
                        THEN {[input |-> last.input, config |-> last.config]}
                        ELSE {}]
    /\ UNCHANGED <<units, indexFile, opened, storeVars, scen, in_tx,
                   foreign_keys, indexVars, lspVars, batch, archVars>>

\* one run of the hook process
Hook(input, config) ==
    /\ ~opened
    /\ \E r \in handle_post_tool_use(CurDb, indexFile,
                                      open(units, indexFile), input, config) :
         /\ indexFile' = r.file
         /\ last' = [op |-> "hook", ok |-> r.out # {}, input |-> input,
                     config |-> config, path |-> r.path,
                     matches |-> r.matches, out |-> r.out,
                     repeat |-> /\ last.op = "ignore"
                                /\ last.after = {[input |-> input,
                                                  config |-> config]},
                     ignored |-> IF last.op = "ignore"
                                 THEN <<last.a, last.b>> ELSE << >>]
    /\ UNCHANGED <<units, pairs, opened, storeVars, scen, in_tx, foreign_keys,
                   indexVars, lspVars, batch, archVars>>

\* the payloads and configurations of the hook runs the model follows
\* through akin ignore
RepeatInputs ==
    { input \in HookInputs :
        /\ input.cwd = {1}
        /\ input.units # << >>
        /\ input.units[1].embedding = Some(Dimensions, VecA) }
RepeatConfigs ==
    { config \in HookConfigs :
        config.max_results = 3 /\ config.scope = "all" }

\* the stored units the extracted unit <<1>> can form a pair with
OtherNames == CrossNames \ {<<1>>}

HookNext ==
    \/ \E n \in CrossNames, e \in HookEmbs : CmdIndex(n, e)
    \/ \E sim \in HookSims : UpsertSimilarPair(<<1>>, <<2>>, sim)
    \/ \E b \in OtherNames : CmdIgnore(b, <<1>>)
    \/ \E input \in RepeatInputs, config \in RepeatConfigs :
           Hook(input, config)

HookSpec == Init /\ [][HookNext]_vars

\* the runs the hook can make in this state
HookRuns ==
    LET o == open(units, indexFile)
    IN UNION { { [input |-> input, config |-> config, matches |-> r.matches,
                  out |-> r.out, path |-> r.path] :
                 r \in handle_post_tool_use(CurDb, indexFile, o, input,
                                            config) } :
               input \in HookInputs, config \in HookConfigs }

\* the pair of a match has a row with status ignored, in either order
IgnoredRow(m) ==
    \E i \in DOMAIN pairs :
        /\ pairs[i].status = "ignored"
        /\ {pairs[i].unit_a, pairs[i].unit_b}
               = {m.current_name, m.similar_name}

\* C21: no match of the hook is between the extracted unit and the stored
\* unit of the same qualified name, and none is between the extracted unit
\* and a stored unit whose pair with it has status ignored, in whichever
\* order the row holds the two names, on the ANN and on the brute-force path
C21_NoSelfNoIgnoredMatch ==
    \A r \in HookRuns :
        \A i \in DOMAIN r.matches :
            /\ r.matches[i].similar_name # r.matches[i].current_name
            /\ ~IgnoredRow(r.matches[i])

\* C22: a hook that runs right after akin ignore on a pair the hook had just
\* reported, with the same payload and configuration, does not report the
\* pair again
C22_IgnoreSuppressesRepeat ==
    (last.op = "hook" /\ last.repeat) =>
        \A i \in DOMAIN last.matches :
            Canonical(last.matches[i].current_name,
                      last.matches[i].similar_name) # last.ignored

\* the project of the stored unit of a match, and of the edited file
MatchProject(m) == UnitOf(units, m.similar_name).project_id
EditedProject(m) == FileOf(m.current_name)

\* C23: with scope project every match is a unit of the project of the
\* edited file, with scope cross every match is a unit of another project,
\* whatever cwd the payload carries
C23_ScopePolicy ==
    \A r \in HookRuns :
        \A i \in DOMAIN r.matches :
            /\ r.config.scope = "project"
                   => MatchProject(r.matches[i])
                          = EditedProject(r.matches[i])
            /\ r.config.scope = "cross"
                   => MatchProject(r.matches[i])
                          # EditedProject(r.matches[i])

\* the index of the store holds exactly the embedded units, each under the
\* id of its name
IndexExact(st, us) ==
    /\ st.vector_index.some
    /\ \A id \in DOMAIN st.vector_index.entries :
           /\ id \in DOMAIN st.id_to_name
           /\ HasUnit(us, st.id_to_name[id])
           /\ LET u == UnitOf(us, st.id_to_name[id])
              IN /\ Decoded(u.embedding).some
                 /\ Decoded(u.embedding).vec = st.vector_index.entries[id].vec
    /\ \A i \in DOMAIN us :
           Decoded(us[i].embedding).some =>
               \E id \in DOMAIN st.vector_index.entries :
                   st.id_to_name[id] = us[i].qualified_name

\* C24: on a store whose index holds exactly the embedded units, the
\* brute-force matcher and the ANN matcher return the same matches for
\* every payload and configuration
C24_BruteForceEqualsAnn ==
    LET o == open(units, indexFile)
    IN (~opened /\ o.ok /\ IndexExact(o.st, units)) =>
        \A input \in HookInputs, config \in HookConfigs :
            find_similar_units_ann(o.st, CurDb, input.units, input.cwd, config)
                = {find_similar_units(CurDb, input.units, input.cwd, config)}

\* C25: an output of the hook is {}, or decision "block" with a reason and
\* no systemMessage under notify mode block, or systemMessage alone under
\* notify mode user; decision and reason come together, and an output other
\* than {} is emitted only for at least one match
C25_OutputShapes ==
    \A r \in HookRuns :
        \A o \in r.out :
            /\ \/ o = HookResult_empty
               \/ /\ o.decision = {"block"}
                  /\ Cardinality(o.reason) = 1
                  /\ o.system_message = {}
                  /\ r.config.notify = "block"
               \/ /\ o.decision = {}
                  /\ o.reason = {}
                  /\ Cardinality(o.system_message) = 1
                  /\ r.config.notify = "user"
            /\ (o.decision # {}) <=> (o.reason # {})
            /\ o # HookResult_empty => r.matches # << >>

\* the hook has blocked on a match and has sent a message to the user
C25_Witness ==
    /\ last.op = "hook"
    /\ last.matches # << >>
    /\ last.config.notify = "user"
    /\ last.path = "ann"
    /\ last.out = {HookResult_notify(format_result(last.matches))}

(***************************************************************************)
(* Filtered search (vector_index.rs search_filtered, store.rs              *)
(* search_similar_filtered) on the stores ScanSpec reaches.               *)
(***************************************************************************)
FilterQueries == {VecA, VecB}
FilterK == {1, 2}

DimInputs == { Some(d, VecA) : d \in {2, Dimensions, Dimensions + 1} }

\* C27: on every index, add and search of a vector whose length is not the
\* configured dimension fail with DimensionMismatch, and an add that fails
\* leaves the entries and the size of the index as they were
C27_DimensionMismatch ==
    vector_index.some =>
        \A e \in DimInputs, id \in 1..(MaxRowId + 1), k \in FilterK :
            LET a == add(vector_index, id, VecOf(e, <<1>>))
                s == VectorIndex_search(vector_index, e, k)
            IN /\ e.dim # Dimensions =>
                     /\ ~a.ok /\ a.err = "DimensionMismatch"
                     /\ ~s.ok /\ s.err = "DimensionMismatch"
               /\ ~a.ok =>
                     /\ a.index.entries = vector_index.entries
                     /\ size(a.index) = size(vector_index)

\* upsert_code_unit has failed on an embedding of another dimension, on an
\* index that holds an entry
C27_Witness ==
    /\ last.op = "upsert"
    /\ ~last.ok
    /\ Decoded(last.emb).some
    /\ Decoded(last.emb).dim # Dimensions
    /\ vector_index.some
    /\ size(vector_index) >= 1
    /\ \A id \in DOMAIN vector_index.entries :
           vector_index.entries[id].of # last.name

(***************************************************************************)
(* Store::search_batch_parallel step by step (store.rs:238-271): the call  *)
(* borrows the store immutably, every query is searched by some worker at  *)
(* some time, and collect puts the hits together in the order of the       *)
(* queries.  batch.order is the order in which the workers finished.       *)
(***************************************************************************)
\* Store::search_names: Err, or the possible results, sequences of
\* <<name, similarity>>
search_names(st, query, k, threshold) ==
    IF ~st.vector_index.some
    THEN [ok |-> FALSE, err |-> "VectorIndexNotInitialized", results |-> {}]
    ELSE LET r == VectorIndex_search(st.vector_index, query, k)
             hit(x) == /\ x.similarity >= threshold
                       /\ x.id \in DOMAIN st.id_to_name
         IN IF ~r.ok THEN [ok |-> FALSE, err |-> r.err, results |-> {}]
            ELSE [ok |-> TRUE, err |-> "none",
                  results |->
                    { LET kept == SelectIdx(res, hit)
                      IN [i \in DOMAIN kept |->
                            <<st.id_to_name[kept[i].id],
                              kept[i].similarity>>] :
                      res \in r.results }]

\* the queries cmd_scan hands over: the embeddings of the embedded units
scan_queries(us) ==
    LET qs == units_with_emb(us)
    IN [i \in DOMAIN qs |-> Decoded(qs[i].embedding)]

\* collect: the hits of the queries, tagged, in the order of the queries
collect(slots) ==
    LET F[i \in 0..Len(slots)] ==
            IF i = 0 THEN << >>
            ELSE LET pre == F[i - 1]
                 IN pre \o [j \in DOMAIN slots[i] |->
                              <<i, slots[i][j][1], slots[i][j][2]>>]
    IN F[Len(slots)]

\* the call starts: Err without an index, else one task per query
BatchStart ==
    /\ opened
    /\ batch.state = "idle"
    /\ LET queries == scan_queries(units)
       IN batch' = IF ~vector_index.some
                   THEN [state |-> "done", ok |-> FALSE, queries |-> queries,
                         todo |-> {}, slots |-> << >>, order |-> << >>,
                         result |-> << >>, st |-> CurStore]
                   ELSE [state |-> "running", ok |-> TRUE,
                         queries |-> queries, todo |-> DOMAIN queries,
                         slots |-> [i \in DOMAIN queries |-> << >>],
                         order |-> << >>, result |-> << >>, st |-> CurStore]
    /\ UNCHANGED <<units, pairs, indexFile, storeVars, last, scen, in_tx,
                   foreign_keys, indexVars, lspVars, archVars>>

\* a worker runs the closure on one query that no worker has taken yet
Worker(i) ==
    /\ batch.state = "running"
    /\ i \in batch.todo
    /\ \E hits \in QueryHits(CurStore, batch.queries[i], ScanK,
                              DefaultThreshold) :
          batch' = [batch EXCEPT !.todo = @ \ {i},
                                 !.slots[i] = hits,
                                 !.order = Append(@, i)]
    /\ UNCHANGED <<units, pairs, indexFile, storeVars, last, scen, in_tx,
                   foreign_keys, indexVars, lspVars, archVars>>

\* every query is done: collect and return Ok(results)
BatchCollect ==
    /\ batch.state = "running"
    /\ batch.todo = {}
    /\ batch' = [batch EXCEPT !.state = "done",
                              !.result = collect(batch.slots)]
    /\ UNCHANGED <<units, pairs, indexFile, storeVars, last, scen, in_tx,
                   foreign_keys, indexVars, lspVars, archVars>>

\* the caller takes the result and the borrow of the store ends
BatchReturn ==
    /\ batch.state = "done"
    /\ batch' = NoBatch
    /\ UNCHANGED <<units, pairs, indexFile, storeVars, last, scen, in_tx,
                   foreign_keys, indexVars, lspVars, archVars>>

\* while the call borrows the store nothing else uses it
BatchNext ==
    \/ batch.state = "idle" /\ Open
    \/ \E n \in Names, e \in ScanEmbs :
           batch.state = "idle" /\ UpsertCodeUnit(n, e)
    \/ BatchStart
    \/ \E i \in 1..MaxRowId : Worker(i)
    \/ BatchCollect
    \/ BatchReturn

BatchSpec == Init /\ [][BatchNext]_vars

\* the hits of query i in a result, without the tag
HitsOf(result, i) ==
    LET mine(r) == r[1] = i
        t == SelectIdx(result, mine)
    IN [j \in DOMAIN t |-> <<t[j][2], t[j][3]>>]

\* C28: whatever the order in which the workers ran, the result of
\* search_batch_parallel holds for every query exactly the hits search_names
\* returns for it (none for a query search_names rejects), in the order of
\* the search, by descending similarity and not below the threshold, and
\* nothing else; the store the call borrowed is as it was
C28_BatchEqualsPerQuerySearch ==
    /\ batch.state # "idle" => CurStore = batch.st
    /\ (batch.state = "done" /\ batch.ok) =>
          /\ \A j \in DOMAIN batch.result :
                 /\ batch.result[j][1] \in DOMAIN batch.queries
                 /\ batch.result[j][3] >= DefaultThreshold
          /\ \A i \in DOMAIN batch.queries :
                 LET mine == HitsOf(batch.result, i)
                     sn == search_names(batch.st, batch.queries[i], ScanK,
                                        DefaultThreshold)
                 IN /\ IF sn.ok THEN mine \in sn.results ELSE mine = << >>
                    /\ \A a, b \in DOMAIN mine :
                           a < b => mine[a][2] >= mine[b][2]
          /\ batch.result \in search_batch_parallel(
                                  batch.st, batch.queries, ScanK,
                                  DefaultThreshold)

\* the worker of the second query finished before the worker of the first,
\* both queries have hits, and the result begins with the hits of the first
C28_Witness ==
    /\ batch.state = "done"
    /\ batch.ok
    /\ batch.order = <<2, 1>>
    /\ HitsOf(batch.result, 1) # << >>
    /\ HitsOf(batch.result, 2) # << >>
    /\ batch.result[1][1] = 1

(***************************************************************************)
(* Demultiplexing of the LSP client (protocol.rs read_responses, request). *)
(***************************************************************************)
\* the step is one turn of the loop of read_responses
ReaderStep == stdout # << >> /\ stdout' = Tail(stdout)

\* C29: a message without an id leaves every waiter and the channel alone;
\* a message with id n takes out no waiter but the one registered under n
\* and fills only the empty channel of the request that was given the id n;
\* nothing but the reader takes a waiter out; a request takes the id after
\* the last one given, and registers its waiter under an id that no
\* request before it has used
C29_DemultiplexById ==
    [][/\ ReaderStep =>
             LET msg == Head(stdout)
             IN /\ msg.id = {} => (pending' = pending /\ chan' = chan)
                /\ (pending \ pending') \subseteq msg.id
                /\ chan' # chan =>
                      /\ chan = {}
                      /\ chan' = {msg}
                      /\ msg.id = {request_id}
                      /\ msg.id \subseteq pending
                      /\ msg.id \cap pending' = {}
       /\ ~ReaderStep => /\ pending \subseteq pending'
                         /\ chan' \in {chan, {}}
       /\ request_id' \in {request_id, request_id + 1}
       /\ \A k \in pending' \ pending :
             /\ k = request_id
             /\ \A j \in pending : j < k
             /\ returned[k].how = "none"
             /\ k \notin Written
             /\ k \notin server.answered
      ]_vars

\* the reader has read a notification and the response of request 1, which
\* returned its result, and the waiter of request 2 is registered
C29_Witness ==
    /\ server.notified >= 1
    /\ stdout = << >>
    /\ returned[1].how = "result"
    /\ returned[1].id = 1
    /\ request_id = 2
    /\ pending = {2}
    /\ chan = {}

(***************************************************************************)
(* Re-upserting (store.rs:139-168): sessions in which every                *)
(* upsert_code_unit succeeds, with the index saved and the store closed    *)
(* and reopened in between.                                                *)
(***************************************************************************)
\* no embedding, and two embeddings of the index dimension
ReplaceEmbs == {NullEmb, BlobA, BlobB}

ReplaceNext ==
    \/ Open
    \/ Close
    \/ SaveVectorIndex
    \/ \E n \in Names, e \in ReplaceEmbs : UpsertCodeUnit(n, e) /\ last'.ok

ReplaceSpec == Init /\ [][ReplaceNext]_vars

\* the ids under which the index holds an embedding of the unit called n
EntriesOf(n) ==
    { id \in DOMAIN vector_index.entries : vector_index.entries[id].of = n }

\* C30: after successful upserts the index holds at most one entry per
\* qualified name, and the entry is the embedding of the most recent upsert
\* of the name that carried one, which is the embedding the row holds
C30_UpsertReplaces ==
    (opened /\ vector_index.some) =>
        \A n \in Names :
            /\ Cardinality(EntriesOf(n)) <= 1
            /\ \A id \in EntriesOf(n) :
                   /\ HasUnit(units, n)
                   /\ Decoded(UnitOf(units, n).embedding).some
                   /\ vector_index.entries[id].vec
                          = Decoded(UnitOf(units, n).embedding).vec

(***************************************************************************)
(* Dimension of the index and of the stored embeddings (store.rs:98-109,   *)
(* vector_index.rs:55-66).                                                 *)
(***************************************************************************)
\* C31: every embedding a row of code_units holds decodes to a vector of the
\* dimension of the vector index
C31_StoredEmbeddingsHaveIndexDimension ==
    \A i \in DOMAIN units :
        ~units[i].embedding.null =>
            /\ Decoded(units[i].embedding).some
            /\ Decoded(units[i].embedding).dim = Dimensions

(***************************************************************************)
(* cmd_scan over selected projects (src/akin_cli.rs:253-385): the units of *)
(* the selected projects are the queries, the search runs on the whole     *)
(* index, and the report re-reads table similar_pairs.                     *)
(***************************************************************************)
SelNames == CrossNames
SelEmbs == {BlobA}
Projects == { FileOf(n) : n \in SelNames }
Selections == SUBSET Projects \ { {} }

\* the pairs cmd_scan reports: the rows of similar_pairs at or above the
\* threshold, filtered when cross_only is set and more than one project is
\* selected; a project is looked up among the selected units only
reported_selected(ps, all_units, sel_units, project_ids, cross_only, threshold) ==
    LET all == get_similar_pairs(ps, all_units, threshold)
        proj(n) == IF HasUnit(sel_units, n)
                   THEN {UnitOf(sel_units, n).project_id} ELSE {}
        cross(r) == proj(r.unit_a) # proj(r.unit_b)
    IN IF cross_only /\ Cardinality(project_ids) > 1
       THEN SelectIdx(all, cross) ELSE all

\* cmd_scan on the given projects: the possible outcomes, each the list
\* handed to batch_upsert_similar_pairs, the table after it and the report;
\* none when the command returns before the search
cmd_scan(st, db, project_ids, cross_only, threshold) ==
    LET sel_units == get_code_units_of_projects(db.units, project_ids)
        qs == units_with_emb(sel_units)
        queries == [i \in DOMAIN qs |-> Decoded(qs[i].embedding)]
    IN IF \/ ~st.vector_index.some
          \/ Len(sel_units) < 2
          \/ Len(qs) < 2
       THEN {}
       ELSE { LET list == new_pairs(sel_units, search_results, cross_only)
                  r == batch_upsert_similar_pairs(db, list, "scan", FALSE)
              IN [ok |-> r.ok, list |-> list, ps |-> r.ps,
                  reported |-> IF r.ok
                               THEN reported_selected(
                                        r.ps, db.units, sel_units,
                                        project_ids, cross_only, threshold)
                               ELSE << >>] :
              search_results \in search_batch_parallel(st, queries, ScanK,
                                                       threshold) }

\* akin scan <paths> [--cross-only]
ScanSelected(project_ids, cross_only) ==
    /\ opened
    /\ \E o \in cmd_scan(CurStore, CurDb, project_ids, cross_only,
                         DefaultThreshold) :
          /\ o.ok
          /\ Fits(o.ps)
          /\ pairs' = o.ps
          /\ last' = [op |-> "scan", ok |-> TRUE, projects |-> project_ids,
                      cross_only |-> cross_only]
    /\ UNCHANGED <<units, indexFile, storeVars, scen, in_tx, foreign_keys,
                   indexVars, lspVars, batch, archVars>>

SelNext ==
    \/ Open
    \/ \E n \in SelNames, e \in SelEmbs : UpsertCodeUnit(n, e)
    \/ \E sel \in Selections, c \in BOOLEAN : ScanSelected(sel, c)

SelSpec == Init /\ [][SelNext]_vars

\* the outcomes of the scans that can run in this state
SelScans(cross_only) ==
    IF opened
    THEN UNION { { [projects |-> sel, out |-> o] :
                     o \in cmd_scan(CurStore, CurDb, sel, cross_only,
                                    DefaultThreshold) } :
                 sel \in Selections }
    ELSE {}

\* the project of the unit called n
ProjectOf(n) == UnitOf(units, n).project_id

\* C32: with cross_only every pair a scan reports is a pair of units of two
\* different projects, for one and for several selected projects, whatever
\* rows earlier scans have left in similar_pairs
C32_CrossOnlyReportIsCross ==
    \A s \in SelScans(TRUE) :
        \A i \in DOMAIN s.out.reported :
            ProjectOf(s.out.reported[i].unit_a)
                # ProjectOf(s.out.reported[i].unit_b)

\* C38: a scan of selected projects hands to batch_upsert_similar_pairs only
\* pairs of two units of the selected projects, also when the index holds
\* units of other projects
C38_ScanPersistsSelectedOnly ==
    \A c \in BOOLEAN : \A s \in SelScans(c) :
        \A i \in DOMAIN s.out.list :
            /\ ProjectOf(s.out.list[i][1]) \in s.projects
            /\ ProjectOf(s.out.list[i][2]) \in s.projects

(***************************************************************************)
(* Architecture analyzer (crates/arch/src/analyzer.rs).  A function is     *)
(* identified by its FunctionRef, here a number; arch maps the refs the    *)
(* analyzer knows to their callers and callees, lists of refs in the order *)
(* the language server gave them.  The name of a function is taken to be   *)
(* unique, so that find_function_ref finds the ref that is asked for.      *)
(***************************************************************************)
MaxDepth == 3       \* largest max_depth asked of get_call_tree
Refs == 1..4
\* a function that is stored without callers or callees
Leaf == CHOOSE r \in Refs : \A q \in Refs : q <= r
CallDirections == {"Incoming", "Outgoing"}

\* the lists of callers or callees of a function: up to two distinct refs
ChildLists ==
    { << >> } \cup { <<a>> : a \in Refs }
        \cup { <<p[1], p[2]>> : p \in { q \in Refs \X Refs : q[1] # q[2] } }

children_of(fs, func_ref, direction) ==
    IF direction = "Incoming" THEN fs[func_ref].callers
    ELSE fs[func_ref].callees

RECURSIVE build_tree_NoVisited(_, _, _, _, _, _)
RECURSIVE build_tree(_, _, _, _, _, _)
RECURSIVE for_children(_, _, _, _, _, _, _)

\* as build_tree, without the test of visited
build_tree_NoVisited(fs, func_ref, direction, depth, max_depth, acc) ==
    LET entered == [acc EXCEPT !.calls = @ + 1]
    IN IF depth > max_depth THEN entered
       ELSE LET marked == [entered EXCEPT !.visited = @ \cup {func_ref}]
            IN IF func_ref \in DOMAIN fs
               THEN for_children(
                        fs, children_of(fs, func_ref, direction), 1,
                        direction, depth, max_depth,
                        [marked EXCEPT !.result =
                            Append(@, [ref |-> func_ref, depth |-> depth])])
               ELSE marked

\* build_tree: acc is [visited, result, calls]; calls counts the
\* invocations of build_tree
build_tree(fs, func_ref, direction, depth, max_depth, acc) ==
    LET entered == [acc EXCEPT !.calls = @ + 1]
    IN IF depth > max_depth \/ func_ref \in acc.visited THEN entered
       ELSE LET marked == [entered EXCEPT !.visited = @ \cup {func_ref}]
            IN IF func_ref \in DOMAIN fs
               THEN for_children(
                        fs, children_of(fs, func_ref, direction), 1,
                        direction, depth, max_depth,
                        [marked EXCEPT !.result =
                            Append(@, [ref |-> func_ref, depth |-> depth])])
               ELSE marked

\* the loop of build_tree over the children of a node, from the i-th on
for_children(fs, children, i, direction, depth, max_depth, acc) ==
    IF i > Len(children) THEN acc
    ELSE for_children(fs, children, i + 1, direction, depth, max_depth,
                      build_tree(fs, children[i], direction, depth + 1,
                                 max_depth, acc))

find_function_ref(fs, root) == IF root \in DOMAIN fs THEN {root} ELSE {}

\* get_call_tree: the nodes of the tree in the order they were pushed, and
\* the number of invocations of build_tree
get_call_tree(fs, root, direction, max_depth) ==
    LET empty == [visited |-> {}, result |-> << >>, calls |-> 0]
        start_ref == find_function_ref(fs, root)
        fin == IF start_ref = {} THEN empty
               ELSE build_tree(fs, CHOOSE r \in start_ref : TRUE, direction,
                               0, max_depth, empty)
    IN [nodes |-> fin.result, calls |-> fin.calls]

\* add_function, as build_call_graph calls insert for every unit: the
\* functions are stored in the order of their refs, each once, all with
\* their callees or all with their callers
AddFunction(func_ref, list, direction) ==
    /\ func_ref \notin DOMAIN arch
    /\ func_ref = Cardinality(DOMAIN arch) + 1
    /\ func_ref = Leaf => list = << >>
    /\ \A r \in DOMAIN arch :
          children_of(arch, r, IF direction = "Incoming" THEN "Outgoing"
                               ELSE "Incoming") = << >>
    /\ arch' = Insert(arch, func_ref,
                      IF direction = "Incoming"
                      THEN [callers |-> list, callees |-> << >>]
                      ELSE [callers |-> << >>, callees |-> list])
    /\ tree' = NoTree
    /\ UNCHANGED <<units, pairs, indexFile, storeVars, last, scen, in_tx,
                   foreign_keys, indexVars, lspVars, batch>>

\* arch tree <entry>
GetCallTree(root, direction, max_depth) ==
    /\ arch # EmptyMap
    /\ LET t == get_call_tree(arch, root, direction, max_depth)
       IN tree' = [called |-> TRUE, root |-> root, direction |-> direction,
                   max_depth |-> max_depth, nodes |-> t.nodes,
                   calls |-> t.calls]
    /\ UNCHANGED <<units, pairs, indexFile, storeVars, last, scen, in_tx,
                   foreign_keys, indexVars, lspVars, batch, arch>>

ArchNext ==
    \/ \E r \in Refs, l \in ChildLists, d \in CallDirections :
           AddFunction(r, l, d)
    \/ \E d \in CallDirections : GetCallTree(1, d, 2)

ArchSpec == Init /\ [][ArchNext]_vars

\* the calls of get_call_tree on the analyzer as it is
CallTrees ==
    { [root |-> root, direction |-> d, max_depth |-> m,
       out |-> get_call_tree(arch, root, d, m)] :
      root \in Refs, d \in CallDirections, m \in 0..MaxDepth }

\* the number of child entries of the stored functions
Edges(direction) ==
    LET RECURSIVE Sum(_)
        Sum(S) == IF S = {} THEN 0
                  ELSE LET r == CHOOSE x \in S : TRUE
                       IN Len(children_of(arch, r, direction))
                              + Sum(S \ {r})
    IN Sum(DOMAIN arch)

\* C33: on every call graph, cyclic ones included, get_call_tree ends after
\* at most one invocation of build_tree for the root and one per child
\* entry of the stored functions, lists no function twice, lists stored
\* functions only, and lists no node deeper than max_depth
C33_CallTreeIsBounded ==
    \A c \in CallTrees :
        /\ c.out.calls <= 1 + Edges(c.direction)
        /\ \A i, j \in DOMAIN c.out.nodes :
               i # j => c.out.nodes[i].ref # c.out.nodes[j].ref
        /\ \A i \in DOMAIN c.out.nodes :
               /\ c.out.nodes[i].ref \in DOMAIN arch
               /\ c.out.nodes[i].depth <= c.max_depth

\* the tree of function 1 on a graph in which 1 and 2 call each other and 2
\* calls 3, cut at depth 2
C33_Witness ==
    /\ tree.called
    /\ tree.direction = "Outgoing"
    /\ DOMAIN arch = Refs
    /\ arch[1].callees = <<2>>
    /\ arch[2].callees = <<1, 3>>
    /\ arch[3].callees = <<4, 1>>
    /\ [i \in DOMAIN tree.nodes |-> tree.nodes[i].ref] = <<1, 2, 3>>

\* the stored functions within n calls of the root in the direction
Within(root, direction, n) ==
    LET F[k \in 0..n] ==
            IF k = 0 THEN {root} \cap DOMAIN arch
            ELSE LET prev == F[k - 1]
                 IN prev \cup
                    { r \in DOMAIN arch :
                        \E p \in prev :
                          \E i \in DOMAIN children_of(arch, p, direction) :
                              children_of(arch, p, direction)[i] = r }
    IN F[n]

\* C40: the tree holds every stored function that is within max_depth calls
\* of the root in the chosen direction, whatever the order of the callers
\* and callees in their lists
C40_CallTreeIsComplete ==
    \A c \in CallTrees :
        \A r \in Within(c.root, c.direction, c.max_depth) :
            \E i \in DOMAIN c.out.nodes : c.out.nodes[i].ref = r

(***************************************************************************)
(* The table of waiters of the LSP client after a request has returned.    *)
(***************************************************************************)
\* C34: a waiter is registered only under the id of a request that has not
\* returned yet
C34_PendingOnlyInFlight ==
    \A k \in pending : returned[k].how = "none"

(***************************************************************************)
(* A server that sends requests of its own.  The ids of the server's       *)
(* requests are the server's choice and independent of the client's.       *)
(***************************************************************************)
\* the server sends a request of its own: a message with an id and a method,
\* without result or error
ServerRequest(id) ==
    /\ server.up
    /\ server.notified < MaxNotifications
    /\ stdout' = Append(stdout, [id |-> {id}, kind |-> "request",
                                 file |-> "none"])
    /\ server' = [server EXCEPT !.notified = @ + 1]
    /\ UNCHANGED <<request_id, pending, driver, stdin, chan, returned,
                   reader_running, functions>>

InboundNext ==
    \/ LspNext
    \/ \E id \in 1..MaxRequests : ServerRequest(id) /\ UNCHANGED akinVars

InboundSpec == Init /\ [][InboundNext]_vars

\* C35: what reaches the channel of a waiting request, and what a request
\* returns with, is a response (a result or an error), never a request of
\* the server that carries the same id
C35_OnlyResponsesComplete ==
    /\ \A msg \in chan : msg.kind \in {"result", "error"}
    /\ \A k \in 1..MaxRequests :
           returned[k].how \in {"none", "timeout", "result", "error"}

(***************************************************************************)
(* One session on an open store: units are written through the store,      *)
(* removed through db_mut(), and the index is rebuilt.                     *)
(***************************************************************************)
SessionEmbs == {BlobA, WrongDimBlob}

SessionNext ==
    \/ Open
    \/ \E n \in Names, e \in SessionEmbs : UpsertCodeUnit(n, e)
    \/ \E f \in Files : DbDeleteByFile(f)
    \/ RebuildVectorIndex

SessionSpec == Init /\ [][SessionNext]_vars

\* C36: a rebuild_vector_index that returns an error leaves the mappings,
\* next_id and the in-memory index as they were before the call
C36_FailedRebuildLeavesStore ==
    [][(last'.op = "rebuild" /\ ~last'.ok) => UNCHANGED storeVars]_vars

\* C37: every name search_names returns is the qualified name of a unit in
\* the database
C37_SearchReturnsExistingUnits ==
    (opened /\ vector_index.some) =>
        \A q \in FilterQueries, k \in FilterK :
            LET r == search_names(CurStore, Some(Dimensions, q), k, 0)
            IN r.ok => \A res \in r.results :
                           \A i \in DOMAIN res : HasUnit(units, res[i][1])

(***************************************************************************)
(* The pairs of one project (db/pairs.rs, db/groups.rs).                   *)
(***************************************************************************)
\* get_similar_pairs(project_id, None, min_similarity): the rows joined with
\* the code unit of either side; project_id, {} for None, is compared with
\* the project of the unit of side a
get_similar_pairs_project(ps, us, project_id, min_similarity) ==
    LET keep(r) == /\ r.similarity >= min_similarity
                   /\ HasUnit(us, r.unit_a)
                   /\ HasUnit(us, r.unit_b)
                   /\ project_id # {} =>
                          UnitOf(us, r.unit_a).project_id \in project_id
    IN SelectIdx(ps, keep)

\* get_stats: the units of the project and pairs_by_status, the number of
\* rows per status among the rows whose unit of side a is of the project
get_stats(ps, us, project_id) ==
    LET counted == { i \in DOMAIN ps :
                       /\ HasUnit(us, ps[i].unit_a)
                       /\ UnitOf(us, ps[i].unit_a).project_id = project_id }
        present == { ps[i].status : i \in counted }
    IN [total_units |->
            Cardinality({ i \in DOMAIN us : us[i].project_id = project_id }),
        pairs_by_status |->
            [s \in present |->
                Cardinality({ i \in counted : ps[i].status = s })]]

\* the stored pairs that involve a unit of project P
Involving(P) ==
    { i \in DOMAIN pairs :
        /\ HasUnit(units, pairs[i].unit_a)
        /\ HasUnit(units, pairs[i].unit_b)
        /\ P \in {ProjectOf(pairs[i].unit_a), ProjectOf(pairs[i].unit_b)} }

\* C39: get_similar_pairs(project = P) returns, and get_stats(P) counts,
\* every stored pair with a unit of project P on side a or on side b
C39_ProjectPairsEitherSide ==
    \A P \in Projects :
        LET got == get_similar_pairs_project(pairs, units, {P}, 0)
            stats == get_stats(pairs, units, P).pairs_by_status
        IN /\ \A i \in Involving(P) :
                  \E j \in DOMAIN got : got[j] = pairs[i]
           /\ \A s \in { pairs[i].status : i \in Involving(P) } :
                  /\ s \in DOMAIN stats
                  /\ stats[s] = Cardinality({ i \in Involving(P) :
                                                pairs[i].status = s })
====
